---- MODULE Spec2Model ----
(***************************************************************************)
(* RADAE transceiver: the RX decoder pipeline (rade_decoder.cpp), the TX   *)
(* encoder pipeline (rade_encoder.cpp), the audio stream back ends and the *)
(* GTK controller that starts and stops them.  One controller thread runs  *)
(* the GUI handlers; each pipeline runs processing_loop on a worker        *)
(* thread.  A handler is a sequence of calls on the controller thread      *)
(* (ctl_q); worker steps interleave with those calls.                      *)
(***************************************************************************)
EXTENDS Integers, Sequences, FiniteSets, TLC

VARIABLES
    obj,        \* g_decoder / g_encoder exist (non-null)
    running,    \* running_ atomic of each pipeline
    thread,     \* thread_ handle is joinable
    wpc,        \* position of the worker thread in processing_loop ("off": not live)
    extra,      \* a second worker was spawned over a joinable handle
    crashed,    \* std::terminate was called
    rade,       \* rade_ handle is non-null
    aux,        \* fargan_ (rx) / lpcnet_ (tx) handle is non-null
    sin,        \* capture stream is open
    sout,       \* playback stream is open
    file_mode,  \* decoder file_mode_
    file_rem,   \* file_audio_8k_.size() - file_pos_, in blocks of nin samples
    dec,        \* decoder warm-up members and RX worker locals; have: the
                \* accumulator holds the nin samples of this iteration
    enc,        \* TX worker locals
    tele,       \* telemetry atomics: synced, input level, output level
    stored,     \* the worker has stored to a telemetry atomic (synced, snr_dB,
                \* freq_offset, input or output level) since the controller
                \* last reset them
    obuf,       \* playback device buffer: blocks written and not yet played
    lost,       \* kinds of blocks the open playback stream has discarded
    cap_avail,  \* the capture device holds a period ready to be read
    ctl_q,      \* calls the running GUI handler still has to make
    tx_switch,  \* state of the TX mode switch
    g_timer,    \* meter timer is installed
    closed_ret, \* close() has returned and start() has not run since
    \* the spectrum buffer and its mutex (component model SpecSpectrum)
    spectrum_mag,   \* spectrum_mag_: per bin, the update that wrote it (0: none)
    spectrum_mutex, \* spectrum_mutex_: "free", "worker" or "reader"
    sp_w,           \* worker: position in the publish block, bin index, update number
    sp_r,           \* reader: position in get_spectrum, bin index, out buffer
    sp_live,        \* the worker thread of the pipeline is running
    \* the recorder tap (component model SpecRecorder)
    rc_obj,      \* g_decoder / g_encoder exist
    rc_run,      \* running_ of each pipeline
    rc_thr,      \* thread_ of each pipeline is joinable
    rc_w,        \* worker: position, and the recorder pointer it loaded under the mutex
    rc_ptr,      \* recorder_ of each pipeline points to g_recorder
    rc_mtx,      \* recorder_mutex_ of each pipeline: "free", "worker"
    g_recorder,  \* "null", "open", or "closed" (closed and about to be deleted)
    g_recording, \* g_recording
    rc_q,        \* calls the running GUI handler still has to make
    rc_bad,      \* a worker write reached a closed or freed recorder
    rc_eoo,      \* fate of the EOO block of the last TX run: "none", "rec", "lost"
    rc_gone,     \* the window was destroyed or the program terminated
    \* the WAV recorder (component model SpecWav)
    wav_file,    \* file_ is non-null
    data_bytes,  \* data_bytes_
    wav_disk,    \* the file on disk: length in bytes, RIFF size field (offset
                 \* 4), data size field (offset 40)
    wav_n,       \* samples appended since the file was opened
    wav_drop,    \* a write appended fewer samples than it was given
    wav_op,      \* the last call made: "open", "write", "close"
    wav_calls,   \* calls made so far
    \* the streaming resampler (component model SpecResample)
    rs_rate,     \* <<rate_in, rate_out>> of the stream
    rs_frac,     \* frac carried between calls, in units of 2^-FracBits
    rs_prev,     \* prev carried between calls
    rs_in,       \* all input samples fed so far
    rs_out,      \* all output samples produced so far, in units of 2^-FracBits
    rs_cap,      \* max_out of the last call
    rs_capped,   \* a call filled its output buffer before using up its input
    rs_oob,      \* a call read the input block outside [0, n_in - 1]
    \* the TX frame loop step by step (component model SpecTxFrames)
    tf_pc,       \* where the TX worker is in its frame loop
    tf_feat,     \* feat_count
    tf_acc,      \* complete 160-sample frames waiting in acc_16k
    tf_k,        \* frames processed since the worker started
    tf_modem,    \* rade_tx calls since the worker started
    \* the streaming Hilbert transform (component model SpecHilbert)
    hb_hist,     \* hilbert_hist_
    hb_pos,      \* hilbert_pos_
    hb_delay,    \* delay_buf_
    hb_dpos,     \* delay_pos_
    hb_in,       \* all samples passed in since open
    hb_out,      \* all IQ samples produced since open, <<real, imag>>
    \* the float to S16 converters (component model SpecConvert)
    cv_in,       \* the float value v handed to the converters, in SubSteps
    cv_rx,       \* the S16 the RX output converter made of it
    cv_tx,       \* the S16 the TX output converter made of it
    cv_lp,       \* the S16 the TX LPCNet input converter made of it
    \* file playback sample by sample (component model SpecFile)
    fl_size,     \* file_audio_8k_.size()
    fl_pos,      \* file_pos_
    fl_acc,      \* acc_8k.size()
    fl_nin,      \* nin of the current iteration
    fl_run,      \* running_
    fl_pc,       \* where the worker is: "off", "top", "acc", "chk", "proc"
    fl_timer,    \* the meter timer of the controller is installed
    fl_thread,   \* thread_ is joinable
    fl_join,     \* the controller is inside stop(), waiting in join
    \* the WAV reader of open_file (component model SpecWavRead)
    wr_chunks,   \* the chunks of the file after the RIFF/WAVE preamble
    wr_at,       \* index of the next chunk wav_read_header will read
    wr_fmt,      \* info's format fields were read from a "fmt " chunk
    wr_data,     \* info.data_offset >= 0
    wr_pc,       \* "idle", "header", "decode", "done"
    wr_res,      \* "none", "opened", "failed", "killed"
    \* the EOO callsign of the encoder (component model SpecCallsign)
    cs_callsign, \* callsign_
    cs_rade,     \* rade_ is non-null
    cs_bits,     \* the EOO bits held by the transmitter, <<"none">> without one
    cs_last,     \* the value of the most recent set_callsign call
    cs_calls,    \* calls made so far
    \* one capture stream and the worker reading it (component SpecCapture)
    cp_backend,  \* the AudioStream implementation built in
    cp_reads,    \* read calls made on the stream
    cp_buf,      \* the read call whose frames capture_buf holds, 0: zeros
    cp_err,      \* what the last read returned
    cp_pc,       \* "off", "read", "chk", "proc"
    cp_used,     \* buffer contents the worker processed, in order
    \* the TX-level and mic-level sliders (component model SpecLevels)
    lv_tx,       \* position of g_tx_slider, percent
    lv_mic,      \* position of g_mic_slider, percent
    lv_enc,      \* g_encoder: "none", "closed", "running"
    lv_scale,    \* tx_scale_ in hundredths
    lv_gain,     \* mic_gain_ in hundredths
    lv_restored, \* restore_config has run
    \* the RX accumulator in live mode (component model SpecAcc)
    ac_rate,     \* rate_in_, 0 before open
    ac_frac,     \* resamp_in_frac_
    ac_acc,      \* acc_8k, each sample by its arrival number
    ac_next,     \* samples appended to acc_8k so far
    ac_nin,      \* nin of the current iteration
    ac_pc,       \* "off", "top", "acc", "proc"
    ac_hil,      \* samples given to hilbert_process, in order
    \* one WavRecorder written by a worker and closed by the controller
    \* (component model SpecWavRace)
    wx_file,     \* file_ is non-null
    wx_bytes,    \* data_bytes_
    wx_disk,     \* the file: its length and its two size fields
    wx_mutex,    \* mutex_: "free", "w" (worker) or "c" (controller)
    wx_w,        \* the worker inside write(): pc, count, written
    wx_c,        \* the controller inside close(): "idle", "lock", "patch", "fclose"
    wx_app,      \* bytes appended to the file since the last open()
    wx_nw,       \* write() calls since the last open()
    \* the ALSA encoder's playback writes (component model SpecAlsaTx)
    ae_run,      \* running_
    ae_pc,       \* worker: "off", "loop", "write", "eoo", "drain"
    ae_kind,     \* the frame write_real_to_alsa was given: "modem", "eoo"
    ae_rem,      \* remaining, samples of the frame not yet written
    ae_sent,     \* samples written to the device: modem and eoo counts
    ae_failed,   \* snd_pcm_recover failed during the current frame
    ae_frames    \* modem frames produced by the loop

vars == <<obj, running, thread, wpc, extra, crashed, rade, aux, sin, sout,
          file_mode, file_rem, dec, enc, tele, stored, obuf, lost, cap_avail,
          ctl_q, tx_switch, g_timer, closed_ret>>

\* state of the component models, which the pipeline model leaves alone
sp_vars == <<spectrum_mag, spectrum_mutex, sp_w, sp_r, sp_live>>

rc_vars == <<rc_obj, rc_run, rc_thr, rc_w, rc_ptr, rc_mtx, g_recorder,
             g_recording, rc_q, rc_bad, rc_eoo, rc_gone>>

wav_vars == <<wav_file, data_bytes, wav_disk, wav_n, wav_drop, wav_op,
              wav_calls>>

rs_vars == <<rs_rate, rs_frac, rs_prev, rs_in, rs_out, rs_cap, rs_capped,
             rs_oob>>

tf_vars == <<tf_pc, tf_feat, tf_acc, tf_k, tf_modem>>

hb_vars == <<hb_hist, hb_pos, hb_delay, hb_dpos, hb_in, hb_out>>

cv_vars == <<cv_in, cv_rx, cv_tx, cv_lp>>

fl_vars == <<fl_size, fl_pos, fl_acc, fl_nin, fl_run, fl_pc, fl_timer,
             fl_thread, fl_join>>

wr_vars == <<wr_chunks, wr_at, wr_fmt, wr_data, wr_pc, wr_res>>

cs_vars == <<cs_callsign, cs_rade, cs_bits, cs_last, cs_calls>>

cp_vars == <<cp_backend, cp_reads, cp_buf, cp_err, cp_pc, cp_used>>

lv_vars == <<lv_tx, lv_mic, lv_enc, lv_scale, lv_gain, lv_restored>>

ac_vars == <<ac_rate, ac_frac, ac_acc, ac_next, ac_nin, ac_pc, ac_hil>>

wx_vars ==
    <<wx_file, wx_bytes, wx_disk, wx_mutex, wx_w, wx_c, wx_app, wx_nw>>

ae_vars == <<ae_run, ae_pc, ae_kind, ae_rem, ae_sent, ae_failed, ae_frames>>

SideVars ==
    <<sp_vars, rc_vars, wav_vars, rs_vars, tf_vars, hb_vars, cv_vars, fl_vars,
      wr_vars, cs_vars,
      cp_vars,
      lv_vars,
      ac_vars,
      wx_vars,
      ae_vars>>

(* ---------------------------------------------------------------- bounds *)

\* feature frames one rade_rx call may return
MaxFrames == 2
\* length of a WAV file in blocks of nin samples
MaxFile == 2
\* capacity of the playback device buffer in blocks
OutCap == 2
\* feature frames per modem frame: n_features_in / NB_TOTAL_FEATURES
frames_per_modem == 2
\* bins of the spectrum buffer: SPECTRUM_BINS (256), scaled
SpectrumBins == 3
\* spectrum updates the worker publishes
MaxPublish == 3
\* calls made on a WavRecorder
MaxWavCalls == 5
\* samples passed to one WavRecorder::write
MaxCount == 2
\* significand bits of a double, scaled (53)
MantBits == 4
\* input samples fed to one resampler stream
MaxIn == 4
\* input samples of one resampler call
MaxChunk == 2

\* frames one TX worker processes before it is stopped
MaxTxFrames == 24

\* taps of the Hilbert FIR and length of its two rings (127 in the build)
HILBERT_NTAPS == 5

\* samples passed through the Hilbert transform after an open
MaxHilbertIn == 7

\* largest block of one hilbert_process call
MaxHilbertBlock == 3

\* a float value is kept as a whole number of 1 / SubSteps
SubSteps == 4

\* longest pre-loaded file buffer, in samples
MaxFileLen == 5

\* largest nin the codec asks for
MaxNin == 3

\* most chunks of a WAV file after its preamble
MaxWavChunks == 3

\* calls made on one encoder object
MaxCsCalls == 7

\* read calls made on one capture stream
MaxReads == 4

\* samples of one capture read (READ_FRAMES, 512 in the source)
READ_FRAMES == 2

\* samples appended to acc_8k in one run of the RX worker
MaxAccSamples == 7

\* write() calls made on a recorder between two open() calls
MaxWxWrites == 3

\* samples of one resampled frame given to write_real_to_alsa (n_resamp)
FrameSamples == 3

\* modem frames one transmission produces
MaxAeFrames == 2

(* ------------------------------------------------------------- constants *)

FARGAN_WARMUP_FRAMES == 5

P == {"rx", "tx"}
Backends == {"alsa", "portaudio", "pulse"}

Live(p) == wpc[p] # "off"

LiveCount(p) == (IF Live(p) THEN 1 ELSE 0) + (IF extra[p] THEN 1 ELSE 0)

ZeroTele == [synced |-> FALSE, in_lvl |-> 0, out_lvl |-> 0]

DecInit == [fargan_ready |-> FALSE, warmup_count |-> 0, fargan_st |-> "none",
            was_synced |-> FALSE, output_primed |-> FALSE,
            n_frames |-> 0, fi |-> 0, rms_n |-> 0, have |-> FALSE]

EncInit == [feat_count |-> 0, acc |-> 0, n_eoo |-> 0, prefilled |-> FALSE,
            eoo_open |-> FALSE, last_wr |-> "none"]

\* spectrum_mag_[SPECTRUM_BINS] = {}; nobody holds the mutex
SpInit ==
    /\ spectrum_mag = [b \in 1..SpectrumBins |-> 0]
    /\ spectrum_mutex = "free"
    /\ sp_w = [pc |-> "idle", i |-> 1, gen |-> 0]
    /\ sp_r = [pc |-> "idle", i |-> 1, out |-> [b \in 1..SpectrumBins |-> 0]]
    /\ sp_live = FALSE

\* g_recorder = nullptr, g_recording = false, recorder_ = nullptr
RcInit ==
    /\ rc_obj = [p \in {"rx", "tx"} |-> FALSE]
    /\ rc_run = [p \in {"rx", "tx"} |-> FALSE]
    /\ rc_thr = [p \in {"rx", "tx"} |-> FALSE]
    /\ rc_w = [p \in {"rx", "tx"} |-> [pc |-> "off", rec |-> FALSE]]
    /\ rc_ptr = [p \in {"rx", "tx"} |-> FALSE]
    /\ rc_mtx = [p \in {"rx", "tx"} |-> "free"]
    /\ g_recorder = "null"
    /\ g_recording = FALSE
    /\ rc_q = <<>>
    /\ rc_bad = FALSE
    /\ rc_eoo = "none"
    /\ rc_gone = FALSE

\* FILE* file_ = nullptr; uint32_t data_bytes_ = 0; no file on disk
WavInit ==
    /\ wav_file = FALSE
    /\ data_bytes = 0
    /\ wav_disk = [len |-> 0, riff |-> 0, data |-> 0]
    /\ wav_n = 0
    /\ wav_drop = FALSE
    /\ wav_op = "none"
    /\ wav_calls = 0

\* sample rates, scaled
Rates == {1, 2, 3}

\* sample values
Samples == {0, 1}

\* unsigned int rate_in_ = 0, rate_out_ = 0; double resamp_in_frac_ = 0.0;
\* float resamp_in_prev_ = 0.0f
RsInit ==
    /\ rs_rate = <<0, 0>>
    /\ rs_frac = 0
    /\ rs_prev = 0
    /\ rs_in = <<>>
    /\ rs_out = <<>>
    /\ rs_cap = 0
    /\ rs_capped = FALSE
    /\ rs_oob = FALSE

\* no TX worker yet
TfInit ==
    /\ tf_pc = "off"
    /\ tf_feat = 0
    /\ tf_acc = 0
    /\ tf_k = 0
    /\ tf_modem = 0

\* float hilbert_hist_[HILBERT_NTAPS] = {}; int hilbert_pos_ = 0;
\* float delay_buf_[HILBERT_NTAPS] = {}; int delay_pos_ = 0
HbInit ==
    /\ hb_hist = [i \in 0..(HILBERT_NTAPS - 1) |-> 0]
    /\ hb_pos = 0
    /\ hb_delay = [i \in 0..(HILBERT_NTAPS - 1) |-> 0]
    /\ hb_dpos = 0
    /\ hb_in = <<>>
    /\ hb_out = <<>>

\* nothing converted yet
CvInit ==
    /\ cv_in = 0
    /\ cv_rx = 0
    /\ cv_tx = 0
    /\ cv_lp = 0

\* no file loaded, no worker
FlInit ==
    /\ fl_size = 0
    /\ fl_pos = 0
    /\ fl_acc = 0
    /\ fl_nin = 0
    /\ fl_run = FALSE
    /\ fl_pc = "off"
    /\ fl_timer = FALSE
    /\ fl_thread = FALSE
    /\ fl_join = FALSE

\* no file being read
WrInit ==
    /\ wr_chunks = <<>>
    /\ wr_at = 1
    /\ wr_fmt = FALSE
    /\ wr_data = FALSE
    /\ wr_pc = "idle"
    /\ wr_res = "none"

\* a new RadaeEncoder: std::string callsign_ (empty), rade_ = nullptr
CsInit ==
    /\ cs_callsign = ""
    /\ cs_rade = FALSE
    /\ cs_bits = <<"none">>
    /\ cs_last = ""
    /\ cs_calls = 0

\* no stream opened, std::vector<int16_t> capture_buf(READ_FRAMES) zeroed
CpInit ==
    /\ cp_backend = "none"
    /\ cp_reads = 0
    /\ cp_buf = 0
    /\ cp_err = "none"
    /\ cp_pc = "off"
    /\ cp_used = <<>>

\* tx_scale_ {16384.0f}
TX_SCALE_DEFAULT == 16384

\* mic_gain_ {1.0f}
MIC_GAIN_DEFAULT == 1

\* pct / 100.0 * 32767.0
TX_FULL_SCALE == 32767

\* pct / 100.0 * 2.0
MIC_FULL_GAIN == 2

\* gtk_range_set_value(GTK_RANGE(g_tx_slider), 50), and g_mic_slider alike
SLIDER_START == 50

\* the window as built: both sliders at 50, no encoder object
LvInit ==
    /\ lv_tx = SLIDER_START
    /\ lv_mic = SLIDER_START
    /\ lv_enc = "none"
    /\ lv_scale = 0
    /\ lv_gain = 0
    /\ lv_restored = FALSE

\* a decoder not opened; acc_8k is a local of the worker
AcInit ==
    /\ ac_rate = 0
    /\ ac_frac = 0
    /\ ac_acc = <<>>
    /\ ac_next = 0
    /\ ac_nin = 0
    /\ ac_pc = "off"
    /\ ac_hil = <<>>

\* a new WavRecorder: file_ = nullptr, data_bytes_ = 0, nothing on disk
WxInit ==
    /\ wx_file = FALSE
    /\ wx_bytes = 0
    /\ wx_disk = [len |-> 0, riff |-> 0, data |-> 0]
    /\ wx_mutex = "free"
    /\ wx_w = [pc |-> "idle", count |-> 0, written |-> 0]
    /\ wx_c = "idle"
    /\ wx_app = 0
    /\ wx_nw = 0

\* an opened ALSA encoder that was not started
AeInit ==
    /\ ae_run = FALSE
    /\ ae_pc = "off"
    /\ ae_kind = "none"
    /\ ae_rem = 0
    /\ ae_sent = [modem |-> 0, eoo |-> 0]
    /\ ae_failed = FALSE
    /\ ae_frames = 0

SideInit ==
    /\ SpInit /\ RcInit /\ WavInit /\ RsInit /\ TfInit /\ HbInit /\ CvInit
    /\ FlInit /\ WrInit /\ CsInit /\ CpInit /\ LvInit /\ AcInit /\ WxInit /\ AeInit

Init ==
    /\ obj = [p \in P |-> FALSE]
    /\ running = [p \in P |-> FALSE]
    /\ thread = [p \in P |-> FALSE]
    /\ wpc = [p \in P |-> "off"]
    /\ extra = [p \in P |-> FALSE]
    /\ crashed = FALSE
    /\ rade = [p \in P |-> FALSE]
    /\ aux = [p \in P |-> FALSE]
    /\ sin = [p \in P |-> FALSE]
    /\ sout = [p \in P |-> FALSE]
    /\ file_mode = FALSE
    /\ file_rem = 0
    /\ dec = DecInit
    /\ enc = EncInit
    /\ tele = [p \in P |-> ZeroTele]
    /\ stored = [p \in P |-> FALSE]
    /\ obuf = [p \in P |-> <<>>]
    /\ lost = [p \in P |-> {}]
    /\ cap_avail = [p \in P |-> FALSE]
    /\ ctl_q = <<>>
    /\ tx_switch = FALSE
    /\ g_timer = FALSE
    /\ closed_ret = [p \in P |-> FALSE]
    /\ SideInit

(* ------------------------------------------------- controller: the calls *)

Op(o, p) == [op |-> o, p |-> p]

\* RadaeDecoder::close / RadaeEncoder::close: stop(), then release
CloseOps(p) == <<Op("stop", p), Op("destroy", p)>>

\* stop_all(): stop and close each existing pipeline, then reset the UI
StopAllOps ==
    (IF obj["rx"] THEN <<Op("stop", "rx")>> \o CloseOps("rx") ELSE <<>>)
    \o (IF obj["tx"] THEN <<Op("stop", "tx")>> \o CloseOps("tx") ELSE <<>>)
    \o <<Op("ui_reset", "rx")>>

\* start_decoder(): stop_all, new RadaeDecoder if needed, open, start, timer
StartDecoderOps ==
    StopAllOps \o <<Op("new", "rx")>> \o CloseOps("rx")
    \o <<Op("acquire", "rx"), Op("start", "rx"), Op("timer_on", "rx")>>

\* start_decoder_file(): as start_decoder, with open_file
StartDecoderFileOps ==
    StopAllOps \o <<Op("new", "rx")>> \o CloseOps("rx")
    \o <<Op("acquire_file", "rx"), Op("start", "rx"), Op("timer_on", "rx")>>

\* start_encoder(): stop_all, new RadaeEncoder if needed, open, set_callsign, start, timer
StartEncoderOps ==
    StopAllOps \o <<Op("new", "tx")>> \o CloseOps("tx")
    \o <<Op("acquire", "tx"), Op("set_callsign", "tx"), Op("start", "tx"),
         Op("timer_on", "tx")>>

\* (g_decoder && g_decoder->is_running()) || (g_encoder && g_encoder->is_running())
AnyRunning == (obj["rx"] /\ running["rx"]) \/ (obj["tx"] /\ running["tx"])

Idle == ctl_q = <<>> /\ ~crashed

Busy(o) == ~crashed /\ ctl_q # <<>> /\ Head(ctl_q).op = o

\* variables no controller call and no handler changes
WorkerVars == <<wpc, dec, enc, obuf, lost, cap_avail, SideVars>>

HandlerUnch == <<obj, running, thread, extra, crashed, rade, aux, sin, sout,
                 file_mode, file_rem, tele, stored, closed_ret, WorkerVars>>

(* --------------------------------------------------- controller handlers *)

\* on_start_stop: stop when something runs, else start the selected mode
on_start_stop ==
    /\ Idle
    /\ ctl_q' = IF AnyRunning THEN StopAllOps
                ELSE IF tx_switch THEN StartEncoderOps ELSE StartDecoderOps
    /\ UNCHANGED <<tx_switch, g_timer, HandlerUnch>>

\* on_tx_switch_changed: when running, tear down and start the other mode
on_tx_switch_changed ==
    /\ Idle
    /\ tx_switch' = ~tx_switch
    /\ ctl_q' = IF ~AnyRunning THEN <<>>
                ELSE IF tx_switch' THEN StopAllOps \o StartEncoderOps
                ELSE StopAllOps \o StartDecoderOps
    /\ UNCHANGED <<g_timer, HandlerUnch>>

\* on_meter_tick: the decoder stopped itself -> stop_all, timer removed
on_meter_tick ==
    /\ Idle
    /\ g_timer
    /\ ~(obj["tx"] /\ running["tx"])
    /\ obj["rx"]
    /\ ~running["rx"]
    /\ ctl_q' = StopAllOps
    /\ UNCHANGED <<tx_switch, g_timer, HandlerUnch>>

\* on_callsign_changed: if (g_encoder && g_callsign_entry) set_callsign
on_callsign_changed ==
    /\ Idle
    /\ obj["tx"]
    /\ ctl_q' = <<Op("set_callsign", "tx")>>
    /\ UNCHANGED <<tx_switch, g_timer, HandlerUnch>>

\* on_open_file: File > Open with an output device selected
on_open_file ==
    /\ Idle
    /\ ctl_q' = StartDecoderFileOps
    /\ UNCHANGED <<tx_switch, g_timer, HandlerUnch>>

\* on_input_combo_changed / on_output_combo_changed: restart the decoder
on_combo_changed ==
    /\ Idle
    /\ ctl_q' = StartDecoderOps
    /\ UNCHANGED <<tx_switch, g_timer, HandlerUnch>>

\* on_refresh: stop_all when something runs
on_refresh ==
    /\ Idle
    /\ AnyRunning
    /\ ctl_q' = StopAllOps
    /\ UNCHANGED <<tx_switch, g_timer, HandlerUnch>>


(* ------------------------------------------- controller: one call a step *)

\* a stop() that does not wait for the worker
MustJoin_never(joinable) == FALSE

\* stop(): if (thread_.joinable()) thread_.join();
MustJoin(joinable) == joinable

\* stop(), first half: if (!running_) return; running_ = false;
DoStop ==
    /\ Busy("stop")
    /\ LET p == Head(ctl_q).p IN
        IF ~running[p]
        THEN /\ ctl_q' = Tail(ctl_q)
             /\ UNCHANGED running
        ELSE /\ running' = [running EXCEPT ![p] = FALSE]
             /\ ctl_q' = <<Op("join", p)>> \o Tail(ctl_q)
    /\ UNCHANGED <<obj, thread, extra, crashed, rade, aux, sin, sout,
                   file_mode, file_rem, tele, stored, closed_ret, tx_switch, g_timer, WorkerVars>>

\* stop(), second half: join the worker, then zero the level atomics
\* (the decoder also clears synced_)
DoJoin ==
    /\ Busy("join")
    /\ LET p == Head(ctl_q).p IN
        /\ IF MustJoin(thread[p])
           THEN /\ ~Live(p)
                /\ thread' = [thread EXCEPT ![p] = FALSE]
           ELSE UNCHANGED thread
        /\ tele' = [tele EXCEPT ![p].in_lvl = 0, ![p].out_lvl = 0,
                                ![p].synced = FALSE]
        /\ stored' = [stored EXCEPT ![p] = FALSE]
    /\ ctl_q' = Tail(ctl_q)
    /\ UNCHANGED <<obj, running, extra, crashed, rade, aux, sin, sout,
                   file_mode, file_rem, closed_ret, tx_switch, g_timer, WorkerVars>>

Kinds(q) == {q[i] : i \in 1..Len(q)}

\* close(), after stop(): destroy the codec handles, close the streams
\* (their buffers and the record of what they discarded go with them),
\* clear the file buffer and zero the telemetry
DoDestroy ==
    /\ Busy("destroy")
    /\ LET p == Head(ctl_q).p IN
        /\ rade' = [rade EXCEPT ![p] = FALSE]
        /\ aux' = [aux EXCEPT ![p] = FALSE]
        /\ sin' = [sin EXCEPT ![p] = FALSE]
        /\ sout' = [sout EXCEPT ![p] = FALSE]
        /\ cap_avail' = [cap_avail EXCEPT ![p] = FALSE]
        /\ obuf' = [obuf EXCEPT ![p] = <<>>]
        /\ lost' = [lost EXCEPT ![p] = {}]
        /\ stored' = [stored EXCEPT ![p] = FALSE]
        /\ IF p = "rx"
           THEN /\ file_mode' = FALSE
                /\ file_rem' = 0
                /\ tele' = [tele EXCEPT ![p] = ZeroTele]
                /\ dec' = [dec EXCEPT !.fargan_st = "none"]
           ELSE /\ tele' = [tele EXCEPT ![p].in_lvl = 0, ![p].out_lvl = 0]
                /\ UNCHANGED <<file_mode, file_rem, dec>>
        /\ closed_ret' = [closed_ret EXCEPT ![p] = TRUE]
    /\ ctl_q' = Tail(ctl_q)
    /\ UNCHANGED <<obj, running, thread, extra, crashed, tx_switch, g_timer, wpc, enc,
                   SideVars>>

\* if (!g_decoder) g_decoder = new RadaeDecoder(); (and the encoder alike)
DoNew ==
    /\ Busy("new")
    /\ obj' = [obj EXCEPT ![Head(ctl_q).p] = TRUE]
    /\ ctl_q' = Tail(ctl_q)
    /\ UNCHANGED <<running, thread, extra, crashed, rade, aux, sin, sout,
                   file_mode, file_rem, tele, stored, closed_ret, tx_switch, g_timer, WorkerVars>>

\* the warm-up members as open() and open_file() leave them
DecOpened == [dec EXCEPT !.fargan_ready = FALSE, !.warmup_count = 0,
                         !.fargan_st = "init"]

\* the handles an open call holds when its step res fails: "in" and "out"
\* are the streams, "rade" the codec (open_file's "file" step holds none)
HeldAt(res) ==
    CASE res = "out" -> {"in"}
      [] res = "rade" -> {"in", "out"}
      [] res = "lpcnet" -> {"in", "out", "rade"}
      [] OTHER -> {}

\* failure branches that return without releasing anything
ReleasedAt_nothing(kind, res) == {}

\* what the failure branch of step res releases before return false;
\* kind is "rx" (open), "file" (open_file) or "tx" (RadaeEncoder::open)
ReleasedAt(kind, res) ==
    CASE res = "out" /\ kind # "file" -> {"in"}
      [] res = "rade" /\ kind = "file" -> {"out"}
      [] res = "rade" /\ kind # "file" -> {"in", "out"}
      [] res = "lpcnet" -> {"rade", "in", "out"}
      [] OTHER -> {}

\* the handles still held after the failed call; open_file opens no
\* capture stream
LeftOpen(kind, res) ==
    (HeldAt(res) \ (IF kind = "file" THEN {"in"} ELSE {})) \ ReleasedAt(kind, res)

\* RadaeDecoder::open after its close(): capture, playback, rade_open,
\* FARGAN; a failing step releases what was opened and the handler returns
DoAcquireRx ==
    /\ Busy("acquire")
    /\ Head(ctl_q).p = "rx"
    /\ \E res \in {"in", "out", "rade", "ok"} :
        IF res = "ok"
        THEN /\ sin' = [sin EXCEPT !["rx"] = TRUE]
             /\ sout' = [sout EXCEPT !["rx"] = TRUE]
             /\ rade' = [rade EXCEPT !["rx"] = TRUE]
             /\ aux' = [aux EXCEPT !["rx"] = TRUE]
             /\ dec' = DecOpened
             /\ ctl_q' = Tail(ctl_q)
        ELSE /\ ctl_q' = <<>>
             /\ sin' = [sin EXCEPT !["rx"] = "in" \in LeftOpen("rx", res)]
             /\ sout' = [sout EXCEPT !["rx"] = "out" \in LeftOpen("rx", res)]
             /\ rade' = [rade EXCEPT !["rx"] = "rade" \in LeftOpen("rx", res)]
             /\ UNCHANGED <<aux, dec>>
    /\ UNCHANGED <<obj, running, thread, extra, crashed, file_mode, file_rem,
                   tele, stored, closed_ret, tx_switch,
                   g_timer, wpc, enc, obuf, lost, cap_avail, SideVars>>

\* RadaeDecoder::open_file after its close(): load and resample the WAV,
\* playback, rade_open, FARGAN, file_mode_ = true
DoAcquireFile ==
    /\ Busy("acquire_file")
    /\ \E res \in {"file", "out", "rade", "ok"} :
        /\ IF res = "file"
           THEN UNCHANGED file_rem
           ELSE \E n \in 1..MaxFile : file_rem' = n
        /\ IF res = "ok"
           THEN /\ sout' = [sout EXCEPT !["rx"] = TRUE]
                /\ rade' = [rade EXCEPT !["rx"] = TRUE]
                /\ aux' = [aux EXCEPT !["rx"] = TRUE]
                /\ dec' = DecOpened
                /\ file_mode' = TRUE
                /\ ctl_q' = Tail(ctl_q)
           ELSE /\ ctl_q' = <<>>
                /\ sout' = [sout EXCEPT !["rx"] = "out" \in LeftOpen("file", res)]
                /\ rade' = [rade EXCEPT !["rx"] = "rade" \in LeftOpen("file", res)]
                /\ UNCHANGED <<aux, dec, file_mode>>
    /\ UNCHANGED <<obj, running, thread, extra, crashed, sin, tele, stored,
                   closed_ret, tx_switch, g_timer, wpc, enc, obuf, lost, cap_avail,
                   SideVars>>

\* RadaeEncoder::open after its close(): capture, playback, rade_open,
\* apply_lpcnet_encoder_create
DoAcquireTx ==
    /\ Busy("acquire")
    /\ Head(ctl_q).p = "tx"
    /\ \E res \in {"in", "out", "rade", "lpcnet", "ok"} :
        IF res = "ok"
        THEN /\ sin' = [sin EXCEPT !["tx"] = TRUE]
             /\ sout' = [sout EXCEPT !["tx"] = TRUE]
             /\ rade' = [rade EXCEPT !["tx"] = TRUE]
             /\ aux' = [aux EXCEPT !["tx"] = TRUE]
             /\ ctl_q' = Tail(ctl_q)
        ELSE /\ ctl_q' = <<>>
             /\ sin' = [sin EXCEPT !["tx"] = "in" \in LeftOpen("tx", res)]
             /\ sout' = [sout EXCEPT !["tx"] = "out" \in LeftOpen("tx", res)]
             /\ rade' = [rade EXCEPT !["tx"] = "rade" \in LeftOpen("tx", res)]
             /\ UNCHANGED aux
    /\ UNCHANGED <<obj, running, thread, extra, crashed, file_mode, file_rem,
                   tele, stored, closed_ret, tx_switch, g_timer, WorkerVars>>

\* set_callsign: callsign_ = cs; apply_callsign calls rade_tx_set_eoo_bits
\* on the transmitter when rade_ is non-null (the text is not modelled)
DoSetCallsign ==
    /\ Busy("set_callsign")
    /\ ctl_q' = Tail(ctl_q)
    /\ UNCHANGED <<obj, running, thread, extra, crashed, rade, aux, sin, sout,
                   file_mode, file_rem, tele, stored, closed_ret, tx_switch,
                   g_timer, WorkerVars>>

\* the RX worker's locals at entry to processing_loop
RxLocals == [dec EXCEPT !.was_synced = FALSE, !.output_primed = FALSE,
                        !.n_frames = 0, !.fi = 0, !.rms_n = 0,
                        !.have = FALSE]

\* the guard of start(): nothing to do unless opened and not running
CanStart(p) ==
    IF p = "rx"
    THEN ~((~sin[p] /\ ~file_mode) \/ ~sout[p] \/ ~rade[p] \/ running[p])
    ELSE ~(~sin[p] \/ ~sout[p] \/ ~rade[p] \/ ~aux[p] \/ running[p])

\* start(): running_ = true; thread_ = std::thread(processing_loop).
\* Assigning over a joinable handle calls std::terminate, after the new
\* thread was constructed.
DoStart ==
    /\ Busy("start")
    /\ LET p == Head(ctl_q).p IN
        IF ~CanStart(p)
        THEN /\ ctl_q' = Tail(ctl_q)
             /\ UNCHANGED <<running, thread, extra, crashed, wpc, dec, enc,
                            closed_ret>>
        ELSE /\ running' = [running EXCEPT ![p] = TRUE]
             /\ closed_ret' = [closed_ret EXCEPT ![p] = FALSE]
             /\ IF thread[p]
                THEN /\ crashed' = TRUE
                     /\ extra' = [extra EXCEPT ![p] = TRUE]
                     /\ UNCHANGED <<thread, wpc, dec, enc, ctl_q>>
                ELSE /\ thread' = [thread EXCEPT ![p] = TRUE]
                     /\ wpc' = [wpc EXCEPT ![p] = IF p = "rx" THEN "top" ELSE "pre"]
                     /\ dec' = IF p = "rx" THEN RxLocals ELSE dec
                     /\ enc' = IF p = "tx" THEN EncInit ELSE enc
                     /\ ctl_q' = Tail(ctl_q)
                     /\ UNCHANGED <<crashed, extra>>
    /\ UNCHANGED <<obj, rade, aux, sin, sout, file_mode, file_rem, tele,
                   stored, tx_switch, g_timer,
                   obuf, lost, cap_avail, SideVars>>

\* g_timer = g_timeout_add(33, on_meter_tick, nullptr)
DoTimerOn ==
    /\ Busy("timer_on")
    /\ g_timer' = TRUE
    /\ ctl_q' = Tail(ctl_q)
    /\ UNCHANGED <<tx_switch, HandlerUnch>>

\* end of stop_all: g_source_remove(g_timer), meters and button reset
DoUiReset ==
    /\ Busy("ui_reset")
    /\ g_timer' = FALSE
    /\ ctl_q' = Tail(ctl_q)
    /\ UNCHANGED <<tx_switch, HandlerUnch>>

Controller ==
    \/ on_start_stop \/ on_tx_switch_changed \/ on_meter_tick
    \/ on_callsign_changed \/ on_open_file \/ on_combo_changed \/ on_refresh
    \/ DoStop \/ DoJoin \/ DoDestroy \/ DoNew \/ DoAcquireRx \/ DoAcquireFile
    \/ DoAcquireTx \/ DoSetCallsign \/ DoStart \/ DoTimerOn \/ DoUiReset


(* ------------------------------------------------------------- RX worker *)

\* variables no worker step changes
CtlVars == <<obj, thread, extra, crashed, rade, aux, sin, sout, file_mode,
             ctl_q, tx_switch, g_timer, closed_ret, SideVars>>

Room(p) == Len(obuf[p]) < OutCap

Write(p, k) == [obuf EXCEPT ![p] = Append(@, k)]

Stored(p) == [stored EXCEPT ![p] = TRUE]

\* processing_loop returns: its locals are gone
RxReturn == RxLocals

\* while (running_) { int nin = rade_nin(rade_);
RxTop ==
    /\ ~crashed
    /\ wpc["rx"] = "top"
    /\ IF running["rx"]
       THEN /\ wpc' = [wpc EXCEPT !["rx"] = "acc"]
            /\ UNCHANGED dec
       ELSE /\ wpc' = [wpc EXCEPT !["rx"] = "off"]
            /\ dec' = RxReturn
    /\ UNCHANGED <<running, file_rem, enc, tele, stored, obuf, lost,
                   cap_avail, CtlVars>>

\* a worker that does not notice the end of the buffer
AtFileEnd_never(rem) == FALSE

\* size_t remaining = file_audio_8k_.size() - file_pos_; if (remaining == 0)
AtFileEnd(rem) == rem = 0

\* while (acc_8k.size() < nin && running_): file mode copies a chunk or, at
\* the end of the buffer, clears running_; live mode enters Pa_ReadStream
RxAcc ==
    /\ ~crashed
    /\ wpc["rx"] = "acc"
    /\ IF ~dec.have /\ running["rx"]
       THEN IF file_mode
            THEN IF AtFileEnd(file_rem)
                 THEN /\ running' = [running EXCEPT !["rx"] = FALSE]
                      /\ wpc' = [wpc EXCEPT !["rx"] = "chk"]
                      /\ UNCHANGED <<dec, file_rem>>
                 ELSE /\ dec' = [dec EXCEPT !.have = TRUE]
                      /\ file_rem' = file_rem - 1
                      /\ UNCHANGED <<running, wpc>>
            ELSE /\ wpc' = [wpc EXCEPT !["rx"] = "read"]
                 /\ UNCHANGED <<running, dec, file_rem>>
       ELSE /\ wpc' = [wpc EXCEPT !["rx"] = "chk"]
            /\ UNCHANGED <<running, dec, file_rem>>
    /\ UNCHANGED <<enc, tele, stored, obuf, lost, cap_avail, CtlVars>>

\* Pa_ReadStream returns only once the device holds a period
ReadCanReturn(p) == cap_avail[p]

\* Pa_ReadStream returns: a period (paNoError or paInputOverflowed) is
\* resampled into acc_8k; on another error the loop retries or, when
\* running_ was cleared, breaks
RxRead ==
    /\ ~crashed
    /\ wpc["rx"] = "read"
    /\ \/ /\ ReadCanReturn("rx")
          /\ cap_avail' = [cap_avail EXCEPT !["rx"] = FALSE]
          /\ dec' = [dec EXCEPT !.have = TRUE]
          /\ wpc' = [wpc EXCEPT !["rx"] = "acc"]
       \/ /\ wpc' = [wpc EXCEPT !["rx"] = IF running["rx"] THEN "acc" ELSE "chk"]
          /\ UNCHANGED <<cap_avail, dec>>
    /\ UNCHANGED <<running, file_rem, enc, tele, stored, obuf, lost, CtlVars>>

\* if (!running_) break;
RxChk ==
    /\ ~crashed
    /\ wpc["rx"] = "chk"
    /\ wpc' = [wpc EXCEPT !["rx"] = IF running["rx"] THEN "proc" ELSE "off"]
    /\ dec' = IF running["rx"] THEN dec ELSE RxReturn
    /\ UNCHANGED <<running, file_rem, enc, tele, stored, obuf, lost,
                   cap_avail, CtlVars>>

\* the reset placed on the rising edge instead
SyncLost_rising(was, now) == ~was /\ now

\* if (was_synced && !now_synced): lost sync
SyncLost(was, now) == was /\ ~now

\* spectrum, input level, Hilbert, erase nin samples, rade_rx, sync status
\* and the sync-transition reset; the codec's results are free.  A level is
\* kept as zero / non-zero, so the decay of the output level on an
\* iteration without frames (lvl * 0.9) leaves it as it is.
RxProc ==
    /\ ~crashed
    /\ wpc["rx"] = "proc"
    /\ \E now_synced \in BOOLEAN, n \in 0..MaxFrames :
        LET reset == SyncLost(dec.was_synced, now_synced)
            d1 == [dec EXCEPT !.have = FALSE,
                              !.fargan_st = IF reset THEN "init" ELSE @,
                              !.fargan_ready = IF reset THEN FALSE ELSE @,
                              !.warmup_count = IF reset THEN 0 ELSE @,
                              !.output_primed = IF reset THEN FALSE ELSE @,
                              !.was_synced = now_synced,
                              !.n_frames = n, !.fi = 0, !.rms_n = 0]
        IN
        /\ dec' = d1
        /\ tele' = [tele EXCEPT !["rx"].in_lvl = 1,
                                !["rx"].synced = now_synced]
        /\ wpc' = [wpc EXCEPT !["rx"] = IF n > 0 THEN "frames" ELSE "top"]
    /\ stored' = Stored("rx")
    /\ UNCHANGED <<running, file_rem, enc, obuf, lost, cap_avail, CtlVars>>

\* a gate that never takes the warm-up branch
IsWarmupFrame_open(ready) == FALSE

\* if (!fargan_ready_) { ...; continue; }
IsWarmupFrame(ready) == ~ready

\* a completion test that lets a sixth frame into the warm-up buffer
WarmupComplete_late(count) == count > FARGAN_WARMUP_FRAMES

\* if (++warmup_count_ >= 5), applied to the incremented count
WarmupComplete(count) == count >= FARGAN_WARMUP_FRAMES

\* a warm-up completion that never writes the pre-roll
NeedsPreroll_never(primed) == FALSE

\* if (!output_primed)
NeedsPreroll(primed) == ~primed

\* one feature frame of the for loop: a warm-up frame is buffered (the
\* fifth primes FARGAN and writes the pre-roll silence once), any other
\* frame is synthesised, resampled and written; after the last frame the
\* output level is stored when something was synthesised
RxFrame ==
    /\ ~crashed
    /\ wpc["rx"] = "frames"
    /\ LET warm == IsWarmupFrame(dec.fargan_ready)
           done == warm /\ WarmupComplete(dec.warmup_count + 1)
           prime == done /\ NeedsPreroll(dec.output_primed)
           last == dec.fi + 1 >= dec.n_frames
           rms == IF warm THEN dec.rms_n ELSE 1
       IN
        /\ (prime \/ ~warm) => Room("rx")
        /\ obuf' = IF prime THEN Write("rx", "silence")
                   ELSE IF ~warm THEN Write("rx", "speech")
                   ELSE obuf
        /\ dec' = [dec EXCEPT
                     !.warmup_count = IF warm THEN @ + 1 ELSE @,
                     !.fargan_st = IF done THEN "cont" ELSE @,
                     !.fargan_ready = IF done THEN TRUE ELSE @,
                     !.output_primed = IF prime THEN TRUE ELSE @,
                     !.rms_n = rms,
                     !.fi = @ + 1]
        /\ wpc' = [wpc EXCEPT !["rx"] = IF last THEN "top" ELSE "frames"]
        /\ IF last /\ rms > 0
           THEN /\ tele' = [tele EXCEPT !["rx"].out_lvl = 1]
                /\ stored' = Stored("rx")
           ELSE UNCHANGED <<tele, stored>>
    /\ UNCHANGED <<running, file_rem, enc, lost, cap_avail, CtlVars>>

RxWorker == RxTop \/ RxAcc \/ RxRead \/ RxChk \/ RxProc \/ RxFrame


(* ------------------------------------------------------------- TX worker *)

\* a worker that enters its loop without the pre-roll
TxPre_skipped ==
    /\ ~crashed
    /\ wpc["tx"] = "pre"
    /\ wpc' = [wpc EXCEPT !["tx"] = "top"]
    /\ UNCHANGED <<running, file_rem, dec, enc, tele, stored, obuf, lost,
                   cap_avail, CtlVars>>

\* pre-roll: two modem frames of silence are written before the loop
TxPre ==
    /\ ~crashed
    /\ wpc["tx"] = "pre"
    /\ Room("tx")
    /\ obuf' = Write("tx", "silence")
    /\ enc' = [enc EXCEPT !.prefilled = TRUE, !.last_wr = "silence"]
    /\ wpc' = [wpc EXCEPT !["tx"] = "top"]
    /\ UNCHANGED <<running, file_rem, dec, tele, stored, lost, cap_avail,
                   CtlVars>>

\* while (running_)
TxTop ==
    /\ ~crashed
    /\ wpc["tx"] = "top"
    /\ wpc' = [wpc EXCEPT !["tx"] = IF running["tx"] THEN "acc" ELSE "eoo"]
    /\ UNCHANGED <<running, file_rem, dec, enc, tele, stored, obuf, lost,
                   cap_avail, CtlVars>>

\* while (acc_16k.size() < LPCNET_FRAME_SIZE && running_): enter the read
TxAcc ==
    /\ ~crashed
    /\ wpc["tx"] = "acc"
    /\ wpc' = [wpc EXCEPT !["tx"] =
                 IF enc.acc < 1 /\ running["tx"] THEN "read" ELSE "chk"]
    /\ UNCHANGED <<running, file_rem, dec, enc, tele, stored, obuf, lost,
                   cap_avail, CtlVars>>

\* stream_in_.read returns: a period (AUDIO_OK or AUDIO_OVERFLOW) is scaled
\* by the mic gain and resampled into acc_16k; on AUDIO_ERROR the loop
\* retries or, when running_ was cleared, breaks
TxRead ==
    /\ ~crashed
    /\ wpc["tx"] = "read"
    /\ \/ /\ ReadCanReturn("tx")
          /\ cap_avail' = [cap_avail EXCEPT !["tx"] = FALSE]
          /\ enc' = [enc EXCEPT !.acc = @ + 1]
          /\ wpc' = [wpc EXCEPT !["tx"] = "acc"]
       \/ /\ wpc' = [wpc EXCEPT !["tx"] = IF running["tx"] THEN "acc" ELSE "chk"]
          /\ UNCHANGED <<cap_avail, enc>>
    /\ UNCHANGED <<running, file_rem, dec, tele, stored, obuf, lost, CtlVars>>

\* if (!running_) break;
TxChk ==
    /\ ~crashed
    /\ wpc["tx"] = "chk"
    /\ wpc' = [wpc EXCEPT !["tx"] = IF running["tx"] THEN "frame" ELSE "eoo"]
    /\ UNCHANGED <<running, file_rem, dec, enc, tele, stored, obuf, lost,
                   cap_avail, CtlVars>>

\* a test that lets one frame too many through
ModemFrameFull_late(n) == n > frames_per_modem

\* if (feat_count >= frames_per_modem)
ModemFrameFull(n) == n >= frames_per_modem

\* one 160-sample frame: input level, LPCNet features, feat_count++; a full
\* modem frame is encoded by rade_tx, written and feat_count reset
TxFrame ==
    /\ ~crashed
    /\ wpc["tx"] = "frame"
    /\ LET full == ModemFrameFull(enc.feat_count + 1) IN
        /\ full => Room("tx")
        /\ obuf' = IF full THEN Write("tx", "modem") ELSE obuf
        /\ enc' = [enc EXCEPT !.feat_count = IF full THEN 0 ELSE @ + 1,
                              !.acc = @ - 1,
                              !.last_wr = IF full THEN "modem" ELSE @]
        /\ tele' = [tele EXCEPT !["tx"].in_lvl = 1,
                                !["tx"].out_lvl = IF full THEN 1 ELSE @]
        /\ wpc' = [wpc EXCEPT !["tx"] = IF enc.acc - 1 >= 1 THEN "frame" ELSE "top"]
    /\ stored' = Stored("tx")
    /\ UNCHANGED <<running, file_rem, dec, lost, cap_avail, CtlVars>>

\* the stream test inverted
EooGuard_closed(r, o) == r /\ ~o

\* if (rade_ && stream_out_.is_open())
EooGuard(r, o) == r /\ o

\* after the loop: rade_tx_eoo and one write through write_real_to_output
TxEoo ==
    /\ ~crashed
    /\ wpc["tx"] = "eoo"
    /\ IF EooGuard(rade["tx"], sout["tx"])
       THEN /\ Room("tx")
            /\ obuf' = Write("tx", "eoo")
            /\ enc' = [enc EXCEPT !.n_eoo = @ + 1, !.last_wr = "eoo",
                                  !.eoo_open = sout["tx"]]
            /\ tele' = [tele EXCEPT !["tx"].out_lvl = 1]
            /\ stored' = Stored("tx")
            /\ wpc' = [wpc EXCEPT !["tx"] = "drain"]
       ELSE /\ wpc' = [wpc EXCEPT !["tx"] = "off"]
            /\ enc' = EncInit
            /\ UNCHANGED <<obuf, tele, stored>>
    /\ UNCHANGED <<running, file_rem, dec, lost, cap_avail, CtlVars>>

\* AudioStream::stop on a playback stream: snd_pcm_drop and pa_simple_flush
\* discard the buffered blocks, Pa_StopStream plays them out
StopDiscards(b) == b \in {"alsa", "pulse"}

\* "drain the output buffer": stream_out_.stop(); stream_out_.start();
\* what it does depends on the audio back end the program was built with
TxDrain ==
    /\ ~crashed
    /\ wpc["tx"] = "drain"
    /\ obuf' = [obuf EXCEPT !["tx"] = <<>>]
    /\ \E b \in Backends :
        lost' = IF StopDiscards(b)
                THEN [lost EXCEPT !["tx"] = @ \cup Kinds(obuf["tx"])]
                ELSE lost
    /\ wpc' = [wpc EXCEPT !["tx"] = "off"]
    /\ enc' = EncInit
    /\ UNCHANGED <<running, file_rem, dec, tele, stored, cap_avail,
                   CtlVars>>

TxWorker == TxPre \/ TxTop \/ TxAcc \/ TxRead \/ TxChk \/ TxFrame \/ TxEoo
            \/ TxDrain

(* ----------------------------------------------------------- the devices *)

\* the capture device completes a period
DeviceCapture ==
    /\ ~crashed
    /\ \E p \in P :
        /\ sin[p]
        /\ ~cap_avail[p]
        /\ cap_avail' = [cap_avail EXCEPT ![p] = TRUE]
    /\ UNCHANGED <<running, wpc, file_rem, dec, enc, tele, stored, obuf, lost,
                   CtlVars>>

\* the playback device plays the oldest buffered block
DevicePlay ==
    /\ ~crashed
    /\ \E p \in P :
        /\ sout[p]
        /\ obuf[p] # <<>>
        /\ obuf' = [obuf EXCEPT ![p] = Tail(@)]
    /\ UNCHANGED <<running, wpc, file_rem, dec, enc, tele, stored, lost,
                   cap_avail, CtlVars>>

Next == Controller \/ RxWorker \/ TxWorker \/ DeviceCapture \/ DevicePlay

Spec == Init /\ [][Next]_vars


(* ------------------------------------------- component: spectrum buffer *)
(* The worker publishes a spectrum under spectrum_mutex_; get_spectrum,   *)
(* called from the GUI thread, copies it out under the same mutex.  A     *)
(* memcpy is not atomic: it is modelled one bin a step.                   *)

\* the pipeline variables, which the component models leave alone
MainUnch == vars

\* what the spectrum component leaves alone
SpUnch ==
    <<MainUnch, rc_vars, wav_vars, rs_vars, tf_vars, hb_vars, cv_vars,
      fl_vars, wr_vars, cs_vars,
      cp_vars,
      lv_vars,
      ac_vars,
      wx_vars,
      ae_vars>>

\* a lock_guard that does not wait for the mutex
MutexFree_nowait(m) == TRUE

\* std::lock_guard<std::mutex> lock(spectrum_mutex_) acquires a free mutex
MutexFree(m) == m = "free"

\* open(): std::memset(spectrum_mag_, 0, ...) on the GUI thread, then
\* start(); the previous worker has left its publish block
SpStart ==
    /\ ~sp_live
    /\ sp_r.pc = "idle"
    /\ spectrum_mag' = [b \in 1..SpectrumBins |-> 0]
    /\ sp_live' = TRUE
    /\ UNCHANGED <<spectrum_mutex, sp_w, sp_r, SpUnch>>

\* stop(): the worker leaves processing_loop between two iterations
SpStop ==
    /\ sp_live
    /\ sp_r.pc = "idle"
    /\ sp_w.pc = "idle"
    /\ sp_live' = FALSE
    /\ UNCHANGED <<spectrum_mag, spectrum_mutex, sp_w, sp_r, SpUnch>>

\* worker: tmp[] is computed, then { lock_guard lock(spectrum_mutex_);
SpWorkerLock ==
    /\ sp_live
    /\ sp_w.pc = "idle"
    /\ sp_w.gen < MaxPublish
    /\ MutexFree(spectrum_mutex)
    /\ spectrum_mutex' = "worker"
    /\ sp_w' = [pc |-> "copy", i |-> 1, gen |-> sp_w.gen + 1]
    /\ UNCHANGED <<spectrum_mag, sp_r, sp_live, SpUnch>>

\* worker: std::memcpy(spectrum_mag_, tmp, sizeof(spectrum_mag_)), one bin
SpWorkerCopy ==
    /\ sp_w.pc = "copy"
    /\ sp_w.i <= SpectrumBins
    /\ spectrum_mag' = [spectrum_mag EXCEPT ![sp_w.i] = sp_w.gen]
    /\ sp_w' = [sp_w EXCEPT !.i = @ + 1]
    /\ UNCHANGED <<spectrum_mutex, sp_r, sp_live, SpUnch>>

\* worker: } the lock_guard releases the mutex
SpWorkerUnlock ==
    /\ sp_w.pc = "copy"
    /\ sp_w.i > SpectrumBins
    /\ spectrum_mutex' = "free"
    /\ sp_w' = [sp_w EXCEPT !.pc = "idle"]
    /\ UNCHANGED <<spectrum_mag, sp_r, sp_live, SpUnch>>

\* get_spectrum: std::lock_guard<std::mutex> lock(spectrum_mutex_);
SpReaderLock ==
    /\ sp_r.pc = "idle"
    /\ MutexFree(spectrum_mutex)
    /\ spectrum_mutex' = "reader"
    /\ sp_r' = [sp_r EXCEPT !.pc = "copy", !.i = 1]
    /\ UNCHANGED <<spectrum_mag, sp_w, sp_live, SpUnch>>

\* get_spectrum: std::memcpy(out, spectrum_mag_, count * sizeof(float)), one bin
SpReaderCopy ==
    /\ sp_r.pc = "copy"
    /\ sp_r.i <= SpectrumBins
    /\ sp_r' = [sp_r EXCEPT !.out[sp_r.i] = spectrum_mag[sp_r.i], !.i = @ + 1]
    /\ UNCHANGED <<spectrum_mag, spectrum_mutex, sp_w, sp_live, SpUnch>>

\* get_spectrum returns: the lock_guard releases the mutex
SpReaderUnlock ==
    /\ sp_r.pc = "copy"
    /\ sp_r.i > SpectrumBins
    /\ spectrum_mutex' = "free"
    /\ sp_r' = [sp_r EXCEPT !.pc = "idle"]
    /\ UNCHANGED <<spectrum_mag, sp_w, sp_live, SpUnch>>

NextSpectrum ==
    \/ SpStart \/ SpStop \/ SpWorkerLock \/ SpWorkerCopy \/ SpWorkerUnlock
    \/ SpReaderLock \/ SpReaderCopy \/ SpReaderUnlock

SpecSpectrum == Init /\ [][NextSpectrum]_sp_vars


(* --------------------------------------------- component: recorder tap *)
(* The GUI owns g_recorder and attaches it to the pipelines through       *)
(* set_recorder; a worker writes to it under recorder_mutex_.  The        *)
(* handlers are those of the GUI with everything but the recorder, the    *)
(* running flag and the thread left out.                                   *)

\* what the recorder component leaves alone
RcUnch ==
    <<MainUnch, sp_vars, wav_vars, rs_vars, tf_vars, hb_vars, cv_vars,
      fl_vars, wr_vars, cs_vars,
      cp_vars,
      lv_vars,
      ac_vars,
      wx_vars,
      ae_vars>>

RcOp(o, p, h) == [op |-> o, p |-> p, h |-> h]

\* if (g_decoder) g_decoder->set_recorder(nullptr);
\* if (g_encoder) g_encoder->set_recorder(nullptr);
RcDetachAll(h) == <<RcOp("detach", "rx", h), RcOp("detach", "tx", h)>>

\* a stop_all that detaches the recorder before it stops the pipelines
RcStopAllOps_detachfirst ==
    RcDetachAll("stop_all")
    \o <<RcOp("stop", "rx", "stop_all"), RcOp("stop", "tx", "stop_all")>>

\* stop_all(): stop and close both pipelines, then detach the recorder
RcStopAllOps ==
    <<RcOp("stop", "rx", "stop_all"), RcOp("stop", "tx", "stop_all")>>
    \o RcDetachAll("stop_all")

\* a stop branch that closes the recorder before detaching it
RcRecordStopOps_late ==
    <<RcOp("rec_close", "rx", "record"), RcOp("rec_delete", "rx", "record")>>
    \o RcDetachAll("record")

\* on_record_clicked, stop branch: detach, close, delete
RcRecordStopOps ==
    RcDetachAll("record")
    \o <<RcOp("rec_close", "rx", "record"), RcOp("rec_delete", "rx", "record")>>

\* on_record_clicked, start branch: new, open, attach to both pipelines
RcRecordStartOps ==
    <<RcOp("rec_open", "rx", "record"), RcOp("attach", "rx", "record"),
      RcOp("attach", "tx", "record")>>

\* start_decoder / start_encoder: stop_all, new, open, start, set_recorder
RcStartOps(p) ==
    RcStopAllOps
    \o <<RcOp("new", p, "start"), RcOp("start", p, "start"),
         RcOp("attach", p, "start")>>

\* on_window_destroy: detach, stop and delete the pipelines, close recorder
RcDestroyOps ==
    RcDetachAll("destroy")
    \o <<RcOp("stop", "rx", "destroy"), RcOp("del", "rx", "destroy"),
         RcOp("stop", "tx", "destroy"), RcOp("del", "tx", "destroy"),
         RcOp("rec_close", "rx", "destroy"), RcOp("rec_delete", "rx", "destroy"),
         RcOp("gone", "rx", "destroy")>>

RcIdle == rc_q = <<>> /\ ~rc_gone

RcBusy(o) == ~rc_gone /\ rc_q # <<>> /\ Head(rc_q).op = o

RcHandlerUnch == <<rc_obj, rc_run, rc_thr, rc_w, rc_ptr, rc_mtx, g_recorder,
                   g_recording, rc_bad, rc_eoo, rc_gone, RcUnch>>

\* on_record_clicked
RcRecordClicked ==
    /\ RcIdle
    /\ rc_q' = IF g_recording THEN RcRecordStopOps ELSE RcRecordStartOps
    /\ UNCHANGED RcHandlerUnch

\* on_start_stop / on_tx_switch_changed / on_meter_tick reaching stop_all
RcStopAll ==
    /\ RcIdle
    /\ rc_q' = RcStopAllOps
    /\ UNCHANGED RcHandlerUnch

\* on_start_stop and the other handlers reaching start_decoder, start_encoder
RcStartPipeline ==
    /\ RcIdle
    /\ \E p \in P : rc_q' = RcStartOps(p)
    /\ UNCHANGED RcHandlerUnch

\* on_window_destroy
RcWindowDestroy ==
    /\ RcIdle
    /\ rc_q' = RcDestroyOps
    /\ UNCHANGED RcHandlerUnch


\* stop(), first half: if (!running_) return; running_ = false;
RcDoStop ==
    /\ RcBusy("stop")
    /\ LET p == Head(rc_q).p IN
        IF rc_obj[p] /\ rc_run[p]
        THEN /\ rc_run' = [rc_run EXCEPT ![p] = FALSE]
             /\ rc_q' = <<RcOp("join", p, Head(rc_q).h)>> \o Tail(rc_q)
        ELSE /\ rc_q' = Tail(rc_q)
             /\ UNCHANGED rc_run
    /\ UNCHANGED <<rc_obj, rc_thr, rc_w, rc_ptr, rc_mtx, g_recorder,
                   g_recording, rc_bad, rc_eoo, rc_gone, RcUnch>>

\* stop(), second half: if (thread_.joinable()) thread_.join();
RcDoJoin ==
    /\ RcBusy("join")
    /\ LET p == Head(rc_q).p IN
        IF rc_thr[p]
        THEN /\ rc_w[p].pc = "off"
             /\ rc_thr' = [rc_thr EXCEPT ![p] = FALSE]
        ELSE UNCHANGED rc_thr
    /\ rc_q' = Tail(rc_q)
    /\ UNCHANGED <<rc_obj, rc_run, rc_w, rc_ptr, rc_mtx, g_recorder,
                   g_recording, rc_bad, rc_eoo, rc_gone, RcUnch>>

\* set_recorder locks recorder_mutex_ before it stores the pointer
RcLockFree(m) == m = "free"

\* set_recorder(nullptr) on an existing pipeline
RcDoDetach ==
    /\ RcBusy("detach")
    /\ LET p == Head(rc_q).p IN
        IF rc_obj[p]
        THEN /\ RcLockFree(rc_mtx[p])
             /\ rc_ptr' = [rc_ptr EXCEPT ![p] = FALSE]
        ELSE UNCHANGED rc_ptr
    /\ rc_q' = Tail(rc_q)
    /\ UNCHANGED <<rc_obj, rc_run, rc_thr, rc_w, rc_mtx, g_recorder,
                   g_recording, rc_bad, rc_eoo, rc_gone, RcUnch>>

\* set_recorder(g_recorder): on_record_clicked attaches to every existing
\* pipeline, start_decoder / start_encoder when g_recording && g_recorder
RcDoAttach ==
    /\ RcBusy("attach")
    /\ LET p == Head(rc_q).p
           wanted == Head(rc_q).h = "record"
                     \/ (g_recording /\ g_recorder # "null")
       IN
        IF rc_obj[p] /\ wanted
        THEN /\ RcLockFree(rc_mtx[p])
             /\ rc_ptr' = [rc_ptr EXCEPT ![p] = TRUE]
        ELSE UNCHANGED rc_ptr
    /\ rc_q' = Tail(rc_q)
    /\ UNCHANGED <<rc_obj, rc_run, rc_thr, rc_w, rc_mtx, g_recorder,
                   g_recording, rc_bad, rc_eoo, rc_gone, RcUnch>>

\* g_recorder = new WavRecorder(); open("recording.wav"): on failure the
\* recorder is deleted and the handler returns, else g_recording = true
RcDoRecOpen ==
    /\ RcBusy("rec_open")
    /\ \E ok \in BOOLEAN :
        IF ok
        THEN /\ g_recorder' = "open"
             /\ g_recording' = TRUE
             /\ rc_q' = Tail(rc_q)
        ELSE /\ rc_q' = <<>>
             /\ UNCHANGED <<g_recorder, g_recording>>
    /\ UNCHANGED <<rc_obj, rc_run, rc_thr, rc_w, rc_ptr, rc_mtx, rc_bad,
                   rc_eoo, rc_gone, RcUnch>>

\* if (g_recorder) { g_recorder->close();
RcDoRecClose ==
    /\ RcBusy("rec_close")
    /\ g_recorder' = IF g_recorder = "null" THEN "null" ELSE "closed"
    /\ rc_q' = Tail(rc_q)
    /\ UNCHANGED <<rc_obj, rc_run, rc_thr, rc_w, rc_ptr, rc_mtx, g_recording,
                   rc_bad, rc_eoo, rc_gone, RcUnch>>

\* delete g_recorder; g_recorder = nullptr; } and, in on_record_clicked,
\* g_recording = false
RcDoRecDelete ==
    /\ RcBusy("rec_delete")
    /\ g_recorder' = "null"
    /\ g_recording' = IF Head(rc_q).h = "record" THEN FALSE ELSE g_recording
    /\ rc_q' = Tail(rc_q)
    /\ UNCHANGED <<rc_obj, rc_run, rc_thr, rc_w, rc_ptr, rc_mtx, rc_bad,
                   rc_eoo, rc_gone, RcUnch>>

\* if (!g_decoder) g_decoder = new RadaeDecoder(); (and the encoder alike)
RcDoNew ==
    /\ RcBusy("new")
    /\ rc_obj' = [rc_obj EXCEPT ![Head(rc_q).p] = TRUE]
    /\ rc_q' = Tail(rc_q)
    /\ UNCHANGED <<rc_run, rc_thr, rc_w, rc_ptr, rc_mtx, g_recorder,
                   g_recording, rc_bad, rc_eoo, rc_gone, RcUnch>>

\* start(): running_ = true; thread_ = std::thread(...); assigning over a
\* joinable handle terminates the program
RcDoStart ==
    /\ RcBusy("start")
    /\ LET p == Head(rc_q).p IN
        IF rc_run[p]
        THEN /\ rc_q' = Tail(rc_q)
             /\ UNCHANGED <<rc_run, rc_thr, rc_w, rc_eoo, rc_gone>>
        ELSE /\ rc_run' = [rc_run EXCEPT ![p] = TRUE]
             /\ IF rc_thr[p]
                THEN /\ rc_gone' = TRUE
                     /\ rc_q' = <<>>
                     /\ UNCHANGED <<rc_thr, rc_w, rc_eoo>>
                ELSE /\ rc_thr' = [rc_thr EXCEPT ![p] = TRUE]
                     /\ rc_w' = [rc_w EXCEPT ![p] = [pc |-> "loop", rec |-> FALSE]]
                     /\ rc_eoo' = IF p = "tx" THEN "none" ELSE rc_eoo
                     /\ rc_q' = Tail(rc_q)
                     /\ UNCHANGED rc_gone
    /\ UNCHANGED <<rc_obj, rc_ptr, rc_mtx, g_recorder, g_recording, rc_bad,
                   RcUnch>>

\* delete g_decoder / delete g_encoder: destroying a joinable thread_
\* terminates the program
RcDoDel ==
    /\ RcBusy("del")
    /\ LET p == Head(rc_q).p IN
        IF rc_obj[p] /\ rc_thr[p]
        THEN /\ rc_gone' = TRUE
             /\ rc_q' = <<>>
             /\ UNCHANGED <<rc_obj, rc_ptr>>
        ELSE /\ rc_obj' = [rc_obj EXCEPT ![p] = FALSE]
             /\ rc_ptr' = [rc_ptr EXCEPT ![p] = FALSE]
             /\ rc_q' = Tail(rc_q)
             /\ UNCHANGED rc_gone
    /\ UNCHANGED <<rc_run, rc_thr, rc_w, rc_mtx, g_recorder, g_recording,
                   rc_bad, rc_eoo, RcUnch>>

\* on_window_destroy returns: the application ends
RcDoGone ==
    /\ RcBusy("gone")
    /\ rc_gone' = TRUE
    /\ rc_q' = Tail(rc_q)
    /\ UNCHANGED <<rc_obj, rc_run, rc_thr, rc_w, rc_ptr, rc_mtx, g_recorder,
                   g_recording, rc_bad, rc_eoo, RcUnch>>

\* worker: { lock_guard lock(recorder_mutex_); if (recorder_) ...: the
\* block written in the loop, or the EOO block after it
RcWorkerLock ==
    /\ ~rc_gone
    /\ \E p \in P :
        /\ \/ rc_w[p].pc = "loop" /\ rc_run[p]
           \/ rc_w[p].pc = "eoo"
        /\ rc_mtx[p] = "free"
        /\ rc_mtx' = [rc_mtx EXCEPT ![p] = "worker"]
        /\ rc_w' = [rc_w EXCEPT ![p] =
                      [pc |-> IF rc_w[p].pc = "eoo" THEN "eoowr" ELSE "wr",
                       rec |-> rc_ptr[p]]]
    /\ UNCHANGED <<rc_obj, rc_run, rc_thr, rc_ptr, g_recorder, g_recording,
                   rc_q, rc_bad, rc_eoo, rc_gone, RcUnch>>

\* worker: recorder_->write(...); } the mutex is released; after the EOO
\* block the thread returns
RcWorkerWrite ==
    /\ ~rc_gone
    /\ \E p \in P :
        /\ rc_w[p].pc \in {"wr", "eoowr"}
        /\ rc_bad' = (rc_bad \/ (rc_w[p].rec /\ g_recorder # "open"))
        /\ rc_eoo' = IF rc_w[p].pc = "eoowr"
                     THEN (IF rc_w[p].rec THEN "rec" ELSE "lost")
                     ELSE rc_eoo
        /\ rc_mtx' = [rc_mtx EXCEPT ![p] = "free"]
        /\ rc_w' = [rc_w EXCEPT ![p] =
                      [pc |-> IF rc_w[p].pc = "eoowr" THEN "off" ELSE "loop",
                       rec |-> FALSE]]
    /\ UNCHANGED <<rc_obj, rc_run, rc_thr, rc_ptr, g_recorder, g_recording,
                   rc_q, rc_gone, RcUnch>>

\* worker: while (running_) fails; the TX worker goes on to the EOO flush,
\* the RX worker returns
RcWorkerExit ==
    /\ ~rc_gone
    /\ \E p \in P :
        /\ rc_w[p].pc = "loop"
        /\ ~rc_run[p]
        /\ rc_w' = [rc_w EXCEPT ![p].pc = IF p = "tx" THEN "eoo" ELSE "off"]
    /\ UNCHANGED <<rc_obj, rc_run, rc_thr, rc_ptr, rc_mtx, g_recorder,
                   g_recording, rc_q, rc_bad, rc_eoo, rc_gone, RcUnch>>

\* RX worker in file mode: remaining == 0 -> running_ = false
RcWorkerFileEnd ==
    /\ ~rc_gone
    /\ rc_w["rx"].pc = "loop"
    /\ rc_run["rx"]
    /\ rc_run' = [rc_run EXCEPT !["rx"] = FALSE]
    /\ UNCHANGED <<rc_obj, rc_thr, rc_w, rc_ptr, rc_mtx, g_recorder,
                   g_recording, rc_q, rc_bad, rc_eoo, rc_gone, RcUnch>>

NextRecorder ==
    \/ RcRecordClicked \/ RcStopAll \/ RcStartPipeline \/ RcWindowDestroy
    \/ RcDoStop \/ RcDoJoin \/ RcDoDetach \/ RcDoAttach \/ RcDoRecOpen
    \/ RcDoRecClose \/ RcDoRecDelete \/ RcDoNew \/ RcDoStart \/ RcDoDel
    \/ RcDoGone
    \/ RcWorkerLock \/ RcWorkerWrite \/ RcWorkerExit \/ RcWorkerFileEnd

SpecRecorder == Init /\ [][NextRecorder]_rc_vars

(* ---------------------------------------------- component: WAV recorder *)
(* WavRecorder::open, write and close as calls of one client; the mutex   *)
(* makes each call atomic.  The file is kept as its length and its two    *)
(* size fields.                                                            *)

WavUnch ==
    <<MainUnch, sp_vars, rc_vars, rs_vars, tf_vars, hb_vars, cv_vars,
      fl_vars, wr_vars, cs_vars,
      cp_vars,
      lv_vars,
      ac_vars,
      wx_vars,
      ae_vars>>

\* bytes written by write_placeholder_header: "RIFF" u32 "WAVE" "fmt " u32
\* u16 u16 u32 u32 u16 u16 "data" u32
HeaderBytes == 4 + 4 + 4 + 4 + 4 + 2 + 2 + 4 + 4 + 2 + 2 + 4 + 4

\* length of a file of length len after a u32 is written at offset off
LenAfterU32(len, off) == IF off + 4 > len THEN off + 4 ELSE len

\* the file after close() patched it: fseek(4), riff_size = 36 + data_bytes_;
\* fseek(40), data_bytes_; fclose
Patched(disk, bytes) ==
    [len |-> LenAfterU32(LenAfterU32(disk.len, 4), 40),
     riff |-> 36 + bytes,
     data |-> bytes]

\* a close() that patches the header whether or not a file is open
ClosedNoop_never(f) == FALSE

\* if (!file_) return;
ClosedNoop(f) == ~f

\* a write that counts the samples it was given
Counted_given(count, written) == count

\* data_bytes_ += written * sizeof(int16_t), written being fwrite's result
Counted(count, written) == written

\* WavRecorder::open: close(); fopen(path, "wb"); on success the fields are
\* reset and the placeholder header written
WavOpen ==
    /\ wav_calls < MaxWavCalls
    /\ \E ok \in BOOLEAN :
        LET d0 == IF ClosedNoop(wav_file) THEN wav_disk
                  ELSE Patched(wav_disk, data_bytes)
        IN
        IF ok
        THEN /\ wav_file' = TRUE
             /\ data_bytes' = 0
             /\ wav_disk' = [len |-> HeaderBytes, riff |-> 0, data |-> 0]
             /\ wav_n' = 0
             /\ wav_drop' = FALSE
        ELSE /\ wav_file' = FALSE
             /\ data_bytes' = 0
             /\ wav_disk' = d0
             /\ UNCHANGED <<wav_n, wav_drop>>
    /\ wav_op' = "open"
    /\ wav_calls' = wav_calls + 1
    /\ UNCHANGED WavUnch

\* WavRecorder::write: if (!samples || count <= 0) return; if (!file_)
\* return; fwrite appends written <= count samples
WavWrite ==
    /\ wav_calls < MaxWavCalls
    /\ \E count \in 0..MaxCount : \E written \in 0..count :
        IF count <= 0 \/ ClosedNoop(wav_file)
        THEN UNCHANGED <<data_bytes, wav_disk, wav_n, wav_drop>>
        ELSE /\ wav_disk' = [wav_disk EXCEPT !.len = @ + 2 * written]
             /\ data_bytes' = data_bytes + Counted(count, written) * 2
             /\ wav_n' = wav_n + written
             /\ wav_drop' = (wav_drop \/ written < count)
    /\ wav_op' = "write"
    /\ wav_calls' = wav_calls + 1
    /\ UNCHANGED <<wav_file, WavUnch>>

\* WavRecorder::close: if (!file_) return; patch both size fields, fclose,
\* file_ = nullptr, data_bytes_ = 0
WavClose ==
    /\ wav_calls < MaxWavCalls
    /\ IF ClosedNoop(wav_file)
       THEN UNCHANGED <<wav_file, data_bytes, wav_disk>>
       ELSE /\ wav_disk' = Patched(wav_disk, data_bytes)
            /\ wav_file' = FALSE
            /\ data_bytes' = 0
    /\ wav_op' = "close"
    /\ wav_calls' = wav_calls + 1
    /\ UNCHANGED <<wav_n, wav_drop, WavUnch>>

NextWav == WavOpen \/ WavWrite \/ WavClose

SpecWav == Init /\ [][NextWav]_wav_vars

(* ------------------------------------------ component: stream resampler *)
(* resample_linear_stream called on the consecutive blocks of one stream. *)
(* A double is a binary floating-point number of MantBits significand     *)
(* bits, kept as an integer count of 2^-FracBits; sums and quotients are  *)
(* rounded to nearest, ties to even.  Sample arithmetic is exact.         *)

RsUnch ==
    <<MainUnch, sp_vars, rc_vars, wav_vars, tf_vars, hb_vars, cv_vars,
      fl_vars, wr_vars, cs_vars,
      cp_vars,
      lv_vars,
      ac_vars,
      wx_vars,
      ae_vars>>

RECURSIVE Pow2(_)
Pow2(n) == IF n = 0 THEN 1 ELSE 2 * Pow2(n - 1)

\* fractional bits that hold every double in [1/8, ...) exactly
FracBits == MantBits + 2

\* 1.0
One == Pow2(FracBits)

\* the weight of the last significand bit of a number of magnitude a
RECURSIVE Ulp(_)
Ulp(a) == IF a < Pow2(MantBits) THEN 1 ELSE 2 * Ulp(a \div 2)

\* the double nearest to num / den (num >= 0, den > 0), ties to even
RoundRat(num, den) ==
    LET a == num \div den
        q == Ulp(a)
        h == a \div q
        twice == 2 * ((a % q) * den + (num % den))
        up == twice > q * den \/ (twice = q * den /\ h % 2 = 1)
    IN (IF up THEN h + 1 ELSE h) * q

\* the result of a double operation whose exact value is m
RoundSig(m) == IF m >= 0 THEN RoundRat(m, 1) ELSE -RoundRat(-m, 1)

\* double step = (double)rate_in / (double)rate_out
StepOf(rin, rout) == RoundRat(rin * One, rout)

\* static_cast<int>(frac): truncation toward zero
Trunc(m) == IF m >= 0 THEN m \div One ELSE -((-m) \div One)

\* a resampler that does not rebase frac on the next block
FracCarry_kept(frac, n) == frac

\* frac -= n_in
FracCarry(frac, n) == RoundSig(frac - n * One)

\* a resampler without the equal-rate shortcut
EqualRates_never(rin, rout) == FALSE

\* if (rate_in == rate_out)
EqualRates(rin, rout) == rin = rout

\* the while loop: out[n_out++] = s0 + f * (s1 - s0); frac += step
RECURSIVE RsLoop(_, _, _, _, _, _)
RsLoop(in, cap, step, frac, prev, out) ==
    LET idx == Trunc(frac) IN
    IF Len(out) >= cap
    THEN [out |-> out, frac |-> frac, oob |-> FALSE, capped |-> idx < Len(in)]
    ELSE IF idx >= Len(in)
    THEN [out |-> out, frac |-> frac, oob |-> FALSE, capped |-> FALSE]
    ELSE IF idx < 0
    THEN [out |-> out, frac |-> frac, oob |-> TRUE, capped |-> FALSE]
    ELSE LET f == frac - idx * One
             s0 == IF idx = 0 THEN prev ELSE in[idx]
             s1 == in[idx + 1]
         IN RsLoop(in, cap, step, RoundSig(frac + step), prev,
                   Append(out, s0 * One + f * (s1 - s0)))

Min(a, b) == IF a < b THEN a ELSE b

\* resample_linear_stream: the samples written, and frac and prev after it
resample_linear_stream(in, cap, rin, rout, frac, prev) ==
    LET n_in == Len(in)
        last == IF n_in > 0 THEN in[n_in] ELSE prev
    IN
    IF EqualRates(rin, rout)
    THEN [out |-> [i \in 1..Min(n_in, cap) |-> in[i] * One],
          frac |-> frac, prev |-> last, oob |-> FALSE, capped |-> cap < n_in]
    ELSE LET r == RsLoop(in, cap, StepOf(rin, rout), frac, prev, <<>>) IN
         [out |-> r.out, frac |-> FracCarry(r.frac, n_in), prev |-> last,
          oob |-> r.oob, capped |-> r.capped]

RECURSIVE SeqsUpTo(_)
SeqsUpTo(n) ==
    IF n = 0 THEN {<<>>}
    ELSE LET shorter == SeqsUpTo(n - 1) IN
         shorter \cup {Append(q, x) : q \in {t \in shorter : Len(t) = n - 1},
                                      x \in Samples}

\* an output buffer that holds every sample a block of MaxChunk can yield
FullCap == 3 * MaxChunk + 2

\* open(): the device rates are fixed and the resampler state reset
RsOpen ==
    /\ rs_rate' \in Rates \X Rates
    /\ rs_frac' = 0
    /\ rs_prev' = 0
    /\ rs_in' = <<>>
    /\ rs_out' = <<>>
    /\ rs_cap' = 0
    /\ rs_capped' = FALSE
    /\ rs_oob' = FALSE
    /\ UNCHANGED RsUnch

\* one call of resample_linear_stream on the next block of the stream
RsCall ==
    /\ rs_rate # <<0, 0>>
    /\ ~rs_oob
    /\ \E chunk \in SeqsUpTo(MaxChunk), cap \in {1, FullCap} :
        /\ Len(rs_in) + Len(chunk) <= MaxIn
        /\ LET r == resample_linear_stream(chunk, cap, rs_rate[1], rs_rate[2],
                                           rs_frac, rs_prev)
           IN /\ rs_frac' = r.frac
              /\ rs_prev' = r.prev
              /\ rs_out' = rs_out \o r.out
              /\ rs_capped' = (rs_capped \/ r.capped)
              /\ rs_oob' = r.oob
        /\ rs_in' = rs_in \o chunk
        /\ rs_cap' = cap
    /\ UNCHANGED <<rs_rate, RsUnch>>

NextResample == RsOpen \/ RsCall

SpecResample == Init /\ [][NextResample]_rs_vars

(* --------------------------------------------- component: TX frame loop *)
(* The frame loop of the TX worker with the statements TxFrame runs in    *)
(* one step taken one at a time, and counts of the frames processed and   *)
(* of the rade_tx calls made by the worker.                               *)

TfUnch ==
    <<MainUnch, sp_vars, rc_vars, wav_vars, rs_vars, hb_vars, cv_vars,
      fl_vars, wr_vars, cs_vars,
      cp_vars,
      lv_vars,
      ac_vars,
      wx_vars,
      ae_vars>>

\* a read of READ_FRAMES samples at rate_in_ resamples to at most this many
\* complete frames at 16 kHz
MaxPerRead == 2

\* the worker starts: int feat_count = 0; acc_16k empty
TfStart ==
    /\ tf_pc = "off"
    /\ tf_pc' = "loop"
    /\ tf_feat' = 0
    /\ tf_acc' = 0
    /\ tf_k' = 0
    /\ tf_modem' = 0
    /\ UNCHANGED TfUnch

\* the accumulation loop: a read adds its resampled samples to acc_16k
TfRead ==
    /\ tf_pc = "loop"
    /\ tf_acc = 0
    /\ \E n \in 1..MaxPerRead :
        /\ tf_k + n <= MaxTxFrames
        /\ tf_acc' = n
    /\ tf_pc' = "chk"
    /\ UNCHANGED <<tf_feat, tf_k, tf_modem, TfUnch>>

\* if (!running_) break; the frames just read are dropped with the worker
TfChk ==
    /\ tf_pc = "chk"
    /\ \E r \in BOOLEAN : tf_pc' = IF r THEN "loop" ELSE "off"
    /\ UNCHANGED <<tf_feat, tf_acc, tf_k, tf_modem, TfUnch>>

\* while (acc_16k.size() >= LPCNET_FRAME_SIZE): features of one frame are
\* appended, feat_count++, 160 samples consumed
TfFrame ==
    /\ tf_pc = "loop"
    /\ tf_acc >= 1
    /\ tf_feat' = tf_feat + 1
    /\ tf_acc' = tf_acc - 1
    /\ tf_k' = tf_k + 1
    /\ tf_pc' = "test"
    /\ UNCHANGED <<tf_modem, TfUnch>>

\* if (feat_count >= frames_per_modem)
TfTest ==
    /\ tf_pc = "test"
    /\ tf_pc' = IF ModemFrameFull(tf_feat) THEN "tx" ELSE "loop"
    /\ UNCHANGED <<tf_feat, tf_acc, tf_k, tf_modem, TfUnch>>

\* rade_tx, the spectrum and write_real_to_output
TfRadeTx ==
    /\ tf_pc = "tx"
    /\ tf_modem' = tf_modem + 1
    /\ tf_pc' = "reset"
    /\ UNCHANGED <<tf_feat, tf_acc, tf_k, TfUnch>>

\* feat_count = 0
TfReset ==
    /\ tf_pc = "reset"
    /\ tf_feat' = 0
    /\ tf_pc' = "loop"
    /\ UNCHANGED <<tf_acc, tf_k, tf_modem, TfUnch>>

\* while (running_): the outer loop ends once the frames in acc_16k have
\* been processed
TfStop ==
    /\ tf_pc = "loop"
    /\ tf_acc = 0
    /\ tf_pc' = "off"
    /\ UNCHANGED <<tf_feat, tf_acc, tf_k, tf_modem, TfUnch>>

NextTxFrames ==
    TfStart \/ TfRead \/ TfChk \/ TfFrame \/ TfTest \/ TfRadeTx \/ TfReset
    \/ TfStop

SpecTxFrames == Init /\ [][NextTxFrames]_tf_vars

(* ----------------------------------------- component: Hilbert transform *)
(* hilbert_process called on the consecutive blocks the RX worker hands   *)
(* it.  Samples and coefficients are integers, so the sums are exact.     *)

HbUnch ==
    <<MainUnch, sp_vars, rc_vars, wav_vars, rs_vars, tf_vars, cv_vars,
      fl_vars, wr_vars, cs_vars,
      cp_vars,
      lv_vars,
      ac_vars,
      wx_vars,
      ae_vars>>

\* HILBERT_DELAY = (HILBERT_NTAPS - 1) / 2
HILBERT_DELAY == (HILBERT_NTAPS - 1) \div 2

\* input samples; none is zero, the value the rings are cleared to
HilbertSamples == {1, 2}

\* numerator standing for 2 / pi times the Hamming window
CoeffNum == 6

\* init_hilbert_coeffs: zero at the centre and at even distances from it,
\* antisymmetric elsewhere
hilbert_coeffs ==
    [i \in 0..(HILBERT_NTAPS - 1) |->
        LET n == i - HILBERT_DELAY IN
        IF n = 0 \/ n % 2 = 0 THEN 0
        ELSE IF n > 0 THEN CoeffNum \div n ELSE -(CoeffNum \div (-n))]

\* idx = pos - k; if (idx < 0) idx += ntaps
RingBack(pos, k) == IF pos - k < 0 THEN pos - k + HILBERT_NTAPS ELSE pos - k

\* the FIR sum, accumulated for k = 0 .. ntaps - 1
RECURSIVE FirSum(_, _, _)
FirSum(hist, pos, k) ==
    IF k < 0 THEN 0
    ELSE FirSum(hist, pos, k - 1) + hilbert_coeffs[k] * hist[RingBack(pos, k)]

\* a real branch that is not delayed
ReadPos_undelayed(dpos) == dpos

\* read_pos = dpos - delay_n; if (read_pos < 0) read_pos += ntaps
ReadPos(dpos) == RingBack(dpos, HILBERT_DELAY)

\* the body of the for loop for one sample
HilbertStep(st, sample) ==
    LET hist == [st.hist EXCEPT ![st.pos] = sample]
        delay == [st.delay EXCEPT ![st.dpos] = sample]
    IN [hist |-> hist,
        pos |-> (st.pos + 1) % HILBERT_NTAPS,
        delay |-> delay,
        dpos |-> (st.dpos + 1) % HILBERT_NTAPS,
        out |-> Append(st.out, <<delay[ReadPos(st.dpos)],
                                 FirSum(hist, st.pos, HILBERT_NTAPS - 1)>>)]

\* hilbert_process: for (int i = 0; i < n; i++)
RECURSIVE hilbert_process(_, _, _)
hilbert_process(in, i, st) ==
    IF i > Len(in) THEN st
    ELSE hilbert_process(in, i + 1, HilbertStep(st, in[i]))

RECURSIVE HilbertBlocks(_)
HilbertBlocks(n) ==
    IF n = 0 THEN {<<>>}
    ELSE LET shorter == HilbertBlocks(n - 1) IN
         shorter \cup {Append(q, x) : q \in {t \in shorter : Len(t) = n - 1},
                                      x \in HilbertSamples}

\* open / open_file: coefficients computed, both rings cleared, both
\* indices 0
HbOpen ==
    /\ hb_in # <<>>
    /\ hb_hist' = [i \in 0..(HILBERT_NTAPS - 1) |-> 0]
    /\ hb_pos' = 0
    /\ hb_delay' = [i \in 0..(HILBERT_NTAPS - 1) |-> 0]
    /\ hb_dpos' = 0
    /\ hb_in' = <<>>
    /\ hb_out' = <<>>
    /\ UNCHANGED HbUnch

\* one call of hilbert_process on the next nin samples of the stream
HbProcess ==
    /\ \E block \in HilbertBlocks(MaxHilbertBlock) :
        /\ Len(hb_in) + Len(block) <= MaxHilbertIn
        /\ block # <<>>
        /\ LET r == hilbert_process(block, 1,
                      [hist |-> hb_hist, pos |-> hb_pos, delay |-> hb_delay,
                       dpos |-> hb_dpos, out |-> hb_out])
           IN /\ hb_hist' = r.hist
              /\ hb_pos' = r.pos
              /\ hb_delay' = r.delay
              /\ hb_dpos' = r.dpos
              /\ hb_out' = r.out
        /\ hb_in' = hb_in \o block
    /\ UNCHANGED HbUnch

NextHilbert == HbOpen \/ HbProcess

SpecHilbert == Init /\ [][NextHilbert]_hb_vars

(* --------------------------------------- component: float to S16 output *)
(* The three float to S16 conversions of the pipelines applied to one     *)
(* value v, the product of the sample and its scale.                      *)

CvUnch ==
    <<MainUnch, sp_vars, rc_vars, wav_vars, rs_vars, tf_vars, hb_vars, fl_vars,
      wr_vars, cs_vars,
      cp_vars,
      lv_vars,
      ac_vars,
      wx_vars,
      ae_vars>>

\* the clip level of the converters
S16_CLIP == 32767

\* a converter that clips the positive side only
Clip_positive(v) == IF v > S16_CLIP * SubSteps THEN S16_CLIP * SubSteps ELSE v

\* if (v > 32767.0f) v = 32767.0f; if (v < -32767.0f) v = -32767.0f
Clip(v) ==
    IF v > S16_CLIP * SubSteps THEN S16_CLIP * SubSteps
    ELSE IF v < -(S16_CLIP * SubSteps) THEN -(S16_CLIP * SubSteps)
    ELSE v

\* static_cast<int16_t>(v) of a float within the int16_t range: the
\* fraction is dropped
TruncToInt(v) == IF v >= 0 THEN v \div SubSteps ELSE -((-v) \div SubSteps)

\* std::floor(0.5 + v)
FloorHalfUp(v) == (2 * v + SubSteps) \div (2 * SubSteps)

\* RX output: clip, then static_cast<int16_t>(std::floor(0.5 + v))
RxToS16(v) == FloorHalfUp(Clip(v))

\* TX output in write_real_to_output: clip, then static_cast<int16_t>(v)
TxToS16(v) == TruncToInt(Clip(v))

\* TX LPCNet input: clip, then static_cast<int16_t>(v)
LpcToS16(v) == TruncToInt(Clip(v))

\* values around zero, around both clip levels, around the ends of the
\* int16_t range and far outside it
CvAnchors == {-100000, -65536, -40000, -32769, -32768, -32767, -32766,
              -16384, -2, -1, 0, 1, 2, 16384,
              32766, 32767, 32768, 32769, 40000, 65536, 100000}

CvInputs == {a * SubSteps + d : a \in CvAnchors, d \in (-SubSteps)..SubSteps}

\* one sample goes through the converters
CvConvert ==
    /\ \E v \in CvInputs :
        /\ cv_in' = v
        /\ cv_rx' = RxToS16(v)
        /\ cv_tx' = TxToS16(v)
        /\ cv_lp' = LpcToS16(v)
    /\ UNCHANGED CvUnch

NextConvert == CvConvert

SpecConvert == Init /\ [][NextConvert]_cv_vars

(* ------------------------------------------- component: file playback ---*)
(* The accumulation loop of the RX worker in file mode with its sample    *)
(* counts, and the controller's timer that polls is_running().            *)

FlUnch ==
    <<MainUnch, sp_vars, rc_vars, wav_vars, rs_vars, tf_vars, hb_vars, cv_vars,
      wr_vars, cs_vars,
      cp_vars,
      lv_vars,
      ac_vars,
      wx_vars,
      ae_vars>>

\* start_decoder_file on a decoder whose thread is not joinable: stop_all
\* removes the timer, open_file decodes the file into file_audio_8k_ (an
\* empty buffer fails the open) and sets file_pos_ = 0
FlOpenFile ==
    /\ fl_pc = "off"
    /\ ~fl_run
    /\ ~fl_thread
    /\ \E n \in 1..MaxFileLen : fl_size' = n
    /\ fl_pos' = 0
    /\ fl_timer' = FALSE
    /\ UNCHANGED <<fl_acc, fl_nin, fl_run, fl_pc, fl_thread, fl_join, FlUnch>>

\* start() and the timer installed by start_decoder_file; acc_8k is a local
\* of the worker
FlStart ==
    /\ fl_pc = "off"
    /\ ~fl_run
    /\ ~fl_thread
    /\ ~fl_timer
    /\ fl_size > 0
    /\ fl_pos = 0
    /\ fl_run' = TRUE
    /\ fl_thread' = TRUE
    /\ fl_pc' = "top"
    /\ fl_acc' = 0
    /\ fl_nin' = 0
    /\ fl_timer' = TRUE
    /\ UNCHANGED <<fl_size, fl_pos, fl_join, FlUnch>>

\* while (running_) { int nin = rade_nin(rade_);
FlTop ==
    /\ fl_pc = "top"
    /\ IF fl_run
       THEN /\ \E n \in 1..MaxNin : fl_nin' = n
            /\ fl_pc' = "acc"
       ELSE /\ fl_pc' = "off"
            /\ UNCHANGED fl_nin
    /\ UNCHANGED <<fl_size, fl_pos, fl_acc, fl_run, fl_timer, fl_thread,
                   fl_join, FlUnch>>

\* one pass of while (acc_8k.size() < nin && running_) in file mode:
\* remaining == 0 clears running_ and breaks, otherwise
\* chunk = min(need, remaining) samples are copied and file_pos_ += chunk
FlAcc ==
    /\ fl_pc = "acc"
    /\ IF fl_acc < fl_nin /\ fl_run
       THEN IF AtFileEnd(fl_size - fl_pos)
            THEN /\ fl_run' = FALSE
                 /\ fl_pc' = "chk"
                 /\ UNCHANGED <<fl_acc, fl_pos>>
            ELSE LET chunk == Min(fl_nin - fl_acc, fl_size - fl_pos) IN
                 /\ fl_acc' = fl_acc + chunk
                 /\ fl_pos' = fl_pos + chunk
                 /\ UNCHANGED <<fl_run, fl_pc>>
       ELSE /\ fl_pc' = "chk"
            /\ UNCHANGED <<fl_acc, fl_pos, fl_run>>
    /\ UNCHANGED <<fl_size, fl_nin, fl_timer, fl_thread, fl_join, FlUnch>>

\* if (!running_) break;
FlChk ==
    /\ fl_pc = "chk"
    /\ fl_pc' = IF fl_run THEN "proc" ELSE "off"
    /\ UNCHANGED <<fl_size, fl_pos, fl_acc, fl_nin, fl_run, fl_timer,
                   fl_thread, fl_join, FlUnch>>

\* the rest of the iteration: nin samples are transformed and erased
FlProc ==
    /\ fl_pc = "proc"
    /\ fl_acc' = fl_acc - fl_nin
    /\ fl_pc' = "top"
    /\ UNCHANGED <<fl_size, fl_pos, fl_nin, fl_run, fl_timer, fl_thread,
                   fl_join, FlUnch>>

\* stop_all from a handler while the decoder runs: stop() clears running_
\* and goes on to join
FlStop ==
    /\ fl_run
    /\ ~fl_join
    /\ fl_run' = FALSE
    /\ fl_join' = TRUE
    /\ UNCHANGED <<fl_size, fl_pos, fl_acc, fl_nin, fl_pc, fl_timer,
                   fl_thread, FlUnch>>

\* thread_.join() returns once the worker has; stop_all removes the timer
FlJoin ==
    /\ fl_join
    /\ fl_pc = "off"
    /\ fl_join' = FALSE
    /\ fl_thread' = FALSE
    /\ fl_timer' = FALSE
    /\ UNCHANGED <<fl_size, fl_pos, fl_acc, fl_nin, fl_run, fl_pc, FlUnch>>

\* on_meter_tick: if (!g_decoder->is_running()) { stop_all(); return FALSE; }
\* the stop() inside returns at once, running_ being false
FlTick ==
    /\ fl_timer
    /\ ~fl_join
    /\ ~fl_run
    /\ fl_timer' = FALSE
    /\ UNCHANGED <<fl_size, fl_pos, fl_acc, fl_nin, fl_run, fl_pc, fl_thread,
                   fl_join, FlUnch>>

FlWorker == FlTop \/ FlAcc \/ FlChk \/ FlProc

NextFile == FlOpenFile \/ FlStart \/ FlWorker \/ FlStop \/ FlJoin \/ FlTick

\* the worker thread is scheduled, a pending join returns and the GTK timer
\* fires
SpecFile ==
    /\ Init /\ [][NextFile]_fl_vars
    /\ WF_fl_vars(FlWorker) /\ WF_fl_vars(FlJoin) /\ WF_fl_vars(FlTick)

(* ------------------------------------------------ component: WAV reader *)
(* open_file reading a file whose RIFF/WAVE preamble was accepted:        *)
(* wav_read_header walks the chunks, wav_read_mono_float decodes.         *)

WrUnch ==
    <<MainUnch, sp_vars, rc_vars, wav_vars, rs_vars, tf_vars, hb_vars, cv_vars,
      fl_vars, cs_vars,
      cp_vars,
      lv_vars,
      ac_vars,
      wx_vars,
      ae_vars>>

\* kinds of chunk: "fmt " with a supported or an unsupported sample format,
\* "fmt " shorter than 16 bytes, "data", and any other chunk
ChunkKinds == {"fmt", "fmt_odd", "fmt_short", "data", "other"}

RECURSIVE ChunkSeqs(_)
ChunkSeqs(n) ==
    IF n = 0 THEN {<<>>}
    ELSE LET shorter == ChunkSeqs(n - 1) IN
         shorter \cup {Append(q, x) : q \in {t \in shorter : Len(t) = n - 1},
                                      x \in ChunkKinds}

\* open_file: fopen succeeded, the preamble is RIFF ... WAVE;
\* wav_info wav{} and info.data_offset = -1
WrOpen ==
    /\ wr_pc \in {"idle", "done"}
    /\ wr_res # "killed"
    /\ wr_chunks' \in ChunkSeqs(MaxWavChunks)
    /\ wr_at' = 1
    /\ wr_fmt' = FALSE
    /\ wr_data' = FALSE
    /\ wr_pc' = "header"
    /\ wr_res' = "none"
    /\ UNCHANGED WrUnch

\* else if (memcmp(chunk_id, "data", 4) == 0) { ...; break; }
StopsAtData(c) == c = "data"

\* return (info.data_offset >= 0)
HeaderOk(data) == data

\* one pass of while (true) in wav_read_header: a short "fmt " chunk fails
\* the open, a "fmt " chunk fills the format fields, "data" ends the walk
\* with the header accepted, any other chunk is skipped; at the end of the
\* file the loop breaks and the function returns
WrChunk ==
    /\ wr_pc = "header"
    /\ IF wr_at > Len(wr_chunks)
       THEN /\ wr_pc' = IF HeaderOk(wr_data) THEN "decode" ELSE "done"
            /\ wr_res' = IF HeaderOk(wr_data) THEN wr_res ELSE "failed"
            /\ UNCHANGED <<wr_at, wr_fmt, wr_data>>
       ELSE LET c == wr_chunks[wr_at] IN
            IF c = "fmt_short"
            THEN /\ wr_pc' = "done"
                 /\ wr_res' = "failed"
                 /\ UNCHANGED <<wr_at, wr_fmt, wr_data>>
            ELSE IF c \in {"fmt", "fmt_odd"}
            THEN /\ wr_fmt' = TRUE
                 /\ wr_at' = wr_at + 1
                 /\ UNCHANGED <<wr_data, wr_pc, wr_res>>
            ELSE IF StopsAtData(c)
            THEN /\ wr_data' = TRUE
                 /\ wr_pc' = "decode"
                 /\ UNCHANGED <<wr_at, wr_fmt, wr_res>>
            ELSE /\ wr_at' = wr_at + 1
                 /\ UNCHANGED <<wr_fmt, wr_data, wr_pc, wr_res>>
    /\ UNCHANGED <<wr_chunks, WrUnch>>

\* the last "fmt " chunk read before the reader stopped
LastFmt ==
    LET seen == {i \in 1..Min(wr_at, Len(wr_chunks)) :
                    wr_chunks[i] \in {"fmt", "fmt_odd"}}
    IN IF seen = {} THEN "none"
       ELSE wr_chunks[CHOOSE i \in seen : \A j \in seen : j <= i]

\* wav_read_mono_float and the rest of open_file.  With no "fmt " chunk read
\* the fields are those of wav_info{}: total = data_size / (bps / 8) divides
\* by zero, which is undefined (the process is killed, or goes on with any
\* value).  An unsupported bits-per-sample returns an empty vector and the
\* open fails; so does an empty data chunk.
WrDecode ==
    /\ wr_pc = "decode"
    /\ wr_pc' = "done"
    /\ IF LastFmt = "none"
       THEN wr_res' \in {"killed", "failed", "opened"}
       ELSE IF LastFmt = "fmt_odd"
       THEN wr_res' = "failed"
       ELSE wr_res' \in {"opened", "failed"}
    /\ UNCHANGED <<wr_chunks, wr_at, wr_fmt, wr_data, WrUnch>>

NextWavRead == WrOpen \/ WrChunk \/ WrDecode

SpecWavRead == Init /\ [][NextWavRead]_wr_vars

(* -------------------------------------------- component: EOO callsign --*)
(* set_callsign, open and close called on one encoder object.             *)

CsUnch ==
    <<MainUnch, sp_vars, rc_vars, wav_vars, rs_vars, tf_vars, hb_vars, cv_vars,
      fl_vars, wr_vars, cp_vars, lv_vars,
      ac_vars,
      wx_vars,
      ae_vars>>

\* the texts the callsign entry can hold
Callsigns ==
    {"", "VK2A", "VK2B", "VK3C", "W1D", "W1E", "G4F", "JA1G"}

\* EooCallsignDecoder::encode: the bits are a function of the callsign
EncodeBits(cs) == <<"eoo", cs>>

\* an open that leaves the bits rade_open came with
InstalledByOpen_default(cs) == <<"default">>

\* open: rade_open, then apply_callsign installs the bits of callsign_
InstalledByOpen(cs) == EncodeBits(cs)

\* set_callsign: callsign_ = cs; apply_callsign installs the bits when
\* rade_ is non-null
CsSetCallsign ==
    /\ cs_calls < MaxCsCalls
    /\ \E cs \in Callsigns :
        /\ cs_callsign' = cs
        /\ cs_last' = cs
        /\ cs_bits' = IF cs_rade THEN EncodeBits(cs) ELSE cs_bits
    /\ cs_calls' = cs_calls + 1
    /\ UNCHANGED <<cs_rade, CsUnch>>

\* open: close(), the streams, rade_open, apply_callsign, LPCNet; a failure
\* before rade_open leaves no transmitter, one after it closes it again
CsOpen ==
    /\ cs_calls < MaxCsCalls
    /\ \E res \in {"stream", "lpcnet", "ok"} :
        /\ cs_rade' = (res = "ok")
        /\ cs_bits' = IF res = "ok" THEN InstalledByOpen(cs_callsign)
                      ELSE <<"none">>
    /\ cs_calls' = cs_calls + 1
    /\ UNCHANGED <<cs_callsign, cs_last, CsUnch>>

\* close: rade_close(rade_); rade_ = nullptr
CsClose ==
    /\ cs_calls < MaxCsCalls
    /\ cs_rade' = FALSE
    /\ cs_bits' = <<"none">>
    /\ cs_calls' = cs_calls + 1
    /\ UNCHANGED <<cs_callsign, cs_last, CsUnch>>

NextCallsign == CsSetCallsign \/ CsOpen \/ CsClose

SpecCallsign == Init /\ [][NextCallsign]_cs_vars

(* ------------------------------------------- component: capture reads --*)
(* AudioStream::read of each backend and the worker's use of capture_buf. *)

CpUnch ==
    <<MainUnch, sp_vars, rc_vars, wav_vars, rs_vars, tf_vars, hb_vars, cv_vars,
      fl_vars, wr_vars, cs_vars, lv_vars,
      ac_vars,
      wx_vars,
      ae_vars>>

\* the AudioStream implementations: ALSA, PortAudio, PulseAudio
CaptureBackends == {"alsa", "portaudio", "pulse"}

\* what the device does during one read: delivers the frames, has overrun
\* since the last read, or fails
DeviceOutcomes == {"frames", "overrun", "failure"}

\* AudioStream::read: the result returned and whether the buffer was written.
\* ALSA: snd_pcm_readi returning -EPIPE transferred nothing; the stream is
\* prepared again and AUDIO_OVERFLOW returned.  PortAudio: Pa_ReadStream
\* fills the buffer and reports paInputOverflowed for frames lost before it.
\* PulseAudio: pa_simple_read either fills the buffer or fails.
StreamRead(backend, outcome) ==
    CASE outcome = "failure" -> [err |-> "error", filled |-> FALSE]
      [] outcome = "frames" -> [err |-> "ok", filled |-> TRUE]
      [] outcome = "overrun" /\ backend = "alsa" ->
            [err |-> "overflow", filled |-> FALSE]
      [] outcome = "overrun" /\ backend = "portaudio" ->
            [err |-> "overflow", filled |-> TRUE]
      [] outcome = "overrun" /\ backend = "pulse" ->
            [err |-> "ok", filled |-> TRUE]

\* open and start: a new worker with a zeroed capture_buf
CpStart ==
    /\ cp_pc = "off"
    /\ cp_backend = "none"
    /\ \E b \in CaptureBackends : cp_backend' = b
    /\ cp_pc' = "read"
    /\ UNCHANGED <<cp_reads, cp_buf, cp_err, cp_used, CpUnch>>

\* stream_in_.read(capture_buf.data(), READ_FRAMES)
CpRead ==
    /\ cp_pc = "read"
    /\ cp_reads < MaxReads
    /\ cp_reads' = cp_reads + 1
    /\ \E o \in DeviceOutcomes :
        LET r == StreamRead(cp_backend, o) IN
        /\ cp_err' = r.err
        /\ cp_buf' = IF r.filled THEN cp_reads + 1 ELSE cp_buf
    /\ cp_pc' = "chk"
    /\ UNCHANGED <<cp_backend, cp_used, CpUnch>>

\* if (err == AUDIO_ERROR) continue; every other result goes on
CpChk ==
    /\ cp_pc = "chk"
    /\ cp_pc' = IF cp_err = "error" THEN "read" ELSE "proc"
    /\ UNCHANGED <<cp_backend, cp_reads, cp_buf, cp_err, cp_used, CpUnch>>

\* n = READ_FRAMES; the whole buffer is converted, resampled and appended
CpProc ==
    /\ cp_pc = "proc"
    /\ cp_used' = Append(cp_used, cp_buf)
    /\ cp_pc' = "read"
    /\ UNCHANGED <<cp_backend, cp_reads, cp_buf, cp_err, CpUnch>>

\* stop and close: the worker and its buffer are gone
CpStop ==
    /\ cp_pc = "read"
    /\ cp_reads > 0
    /\ cp_pc' = "off"
    /\ cp_backend' = "none"
    /\ cp_reads' = 0
    /\ cp_buf' = 0
    /\ cp_err' = "none"
    /\ cp_used' = <<>>
    /\ UNCHANGED CpUnch

NextCapture == CpStart \/ CpRead \/ CpChk \/ CpProc \/ CpStop

SpecCapture == Init /\ [][NextCapture]_cp_vars

(* ----------------------------------------- component: TX level sliders --*)
(* The two sliders, restore_config, start_encoder and stop_all.           *)

LvUnch ==
    <<MainUnch, sp_vars, rc_vars, wav_vars, rs_vars, tf_vars, hb_vars, cv_vars,
      fl_vars, wr_vars, cs_vars, cp_vars, ac_vars,
      wx_vars,
      ae_vars>>

\* slider positions tried, percent
Levels == {0, 30, 50, 100}

\* on_tx_level_changed: scale = pct / 100.0 * 32767.0, in hundredths
TxScaleOf(pct) == pct * TX_FULL_SCALE

\* on_mic_level_changed: gain = pct / 100.0 * 2.0, in hundredths
MicGainOf(pct) == pct * MIC_FULL_GAIN

\* restore_config: the saved levels are put on the sliders; the handlers
\* run with g_encoder still null and store nothing
LvRestoreConfig ==
    /\ ~lv_restored
    /\ lv_enc = "none"
    /\ \E t \in Levels, m \in Levels :
        /\ lv_tx' = t
        /\ lv_mic' = m
    /\ lv_restored' = TRUE
    /\ UNCHANGED <<lv_enc, lv_scale, lv_gain, LvUnch>>

\* on_tx_level_changed: if (g_encoder) g_encoder->set_tx_scale(scale)
LvTxLevelChanged ==
    /\ \E pct \in Levels \ {lv_tx} :
        /\ lv_tx' = pct
        /\ lv_scale' = IF lv_enc # "none" THEN TxScaleOf(pct) ELSE lv_scale
    /\ UNCHANGED <<lv_mic, lv_enc, lv_gain, lv_restored, LvUnch>>

\* on_mic_level_changed: if (g_encoder) g_encoder->set_mic_gain(gain)
LvMicLevelChanged ==
    /\ \E pct \in Levels \ {lv_mic} :
        /\ lv_mic' = pct
        /\ lv_gain' = IF lv_enc # "none" THEN MicGainOf(pct) ELSE lv_gain
    /\ UNCHANGED <<lv_tx, lv_enc, lv_scale, lv_restored, LvUnch>>

\* start_encoder: stop_all, new RadaeEncoder if there is none (members at
\* their defaults), open, set_bpf_enabled, set_callsign, start
LvStartEncoder ==
    /\ \E opened \in BOOLEAN :
        lv_enc' = IF opened THEN "running" ELSE "closed"
    /\ lv_scale' = IF lv_enc = "none" THEN 100 * TX_SCALE_DEFAULT ELSE lv_scale
    /\ lv_gain' = IF lv_enc = "none" THEN 100 * MIC_GAIN_DEFAULT ELSE lv_gain
    /\ UNCHANGED <<lv_tx, lv_mic, lv_restored, LvUnch>>

\* stop_all: g_encoder->stop(); g_encoder->close(); the object is kept
LvStopAll ==
    /\ lv_enc = "running"
    /\ lv_enc' = "closed"
    /\ UNCHANGED <<lv_tx, lv_mic, lv_scale, lv_gain, lv_restored, LvUnch>>

NextLevels ==
    \/ LvRestoreConfig
    \/ LvTxLevelChanged
    \/ LvMicLevelChanged
    \/ LvStartEncoder
    \/ LvStopAll

SpecLevels == Init /\ [][NextLevels]_lv_vars

(* ------------------------------------------- component: RX accumulator --*)
(* The outer loop of the RX worker in live mode: nin is queried, capture   *)
(* reads are resampled into acc_8k until it holds nin samples, the first   *)
(* nin samples go through hilbert_process and are erased.                  *)

AcUnch ==
    <<MainUnch, sp_vars, rc_vars, wav_vars, rs_vars, tf_vars, hb_vars, cv_vars,
      fl_vars, wr_vars, cs_vars, cp_vars, lv_vars, wx_vars,
      ae_vars>>

\* RADE_FS among Rates
RadeFs == 2

\* rate_in_: RADE_FS as open() sets it, or the higher rate a device gives
CaptureRates == {r \in Rates : r >= RadeFs}

\* int resamp_out_max = READ_FRAMES + 2
ResampOutMax == READ_FRAMES + 2

\* while (acc_8k.size() < nin && running_)
NeedMore(size, nin) == size < nin

\* an iteration that erases nothing
Consumed_none(nin) == 0

\* an erase that leaves the last transformed sample in the accumulator
Consumed_short(nin) == nin - 1

\* acc_8k.erase(acc_8k.begin(), acc_8k.begin() + nin)
Consumed(nin) == nin

\* open() and start(): rate_in_ fixed, resamp_in_frac_ = 0, acc_8k empty
AcOpen ==
    /\ ac_pc = "off"
    /\ ac_rate = 0
    /\ ac_rate' \in CaptureRates
    /\ ac_pc' = "top"
    /\ UNCHANGED <<ac_frac, ac_acc, ac_next, ac_nin, ac_hil, AcUnch>>

\* int nin = rade_nin(rade_)
AcTop ==
    /\ ac_pc = "top"
    /\ ac_next < MaxAccSamples
    /\ Len(ac_hil) < MaxAccSamples
    /\ ac_nin' \in 1..MaxNin
    /\ ac_pc' = "acc"
    /\ UNCHANGED <<ac_rate, ac_frac, ac_acc, ac_next, ac_hil, AcUnch>>

\* one pass of the accumulation loop: READ_FRAMES samples are read,
\* resampled to 8 kHz and appended
AcRead ==
    /\ ac_pc = "acc"
    /\ NeedMore(Len(ac_acc), ac_nin)
    /\ LET r == resample_linear_stream([i \in 1..READ_FRAMES |-> 0],
                                       ResampOutMax, ac_rate, RadeFs,
                                       ac_frac, 0)
           got == Len(r.out)
       IN /\ ac_frac' = r.frac
          /\ ac_acc' = ac_acc \o [i \in 1..got |-> ac_next + i]
          /\ ac_next' = ac_next + got
    /\ UNCHANGED <<ac_rate, ac_nin, ac_pc, ac_hil, AcUnch>>

\* the accumulation loop ends with nin samples or more
AcFull ==
    /\ ac_pc = "acc"
    /\ ~NeedMore(Len(ac_acc), ac_nin)
    /\ ac_pc' = "proc"
    /\ UNCHANGED <<ac_rate, ac_frac, ac_acc, ac_next, ac_nin, ac_hil, AcUnch>>

\* hilbert_process(acc_8k.data(), ..., nin, ...), then the erase
AcProc ==
    /\ ac_pc = "proc"
    /\ ac_hil' = ac_hil \o SubSeq(ac_acc, 1, ac_nin)
    /\ ac_acc' = SubSeq(ac_acc, Consumed(ac_nin) + 1, Len(ac_acc))
    /\ ac_pc' = "top"
    /\ UNCHANGED <<ac_rate, ac_frac, ac_next, ac_nin, AcUnch>>

\* stop() and close(): the worker has returned
AcStop ==
    /\ ac_pc = "top"
    /\ ac_next > 0
    /\ ac_rate' = 0
    /\ ac_frac' = 0
    /\ ac_acc' = <<>>
    /\ ac_next' = 0
    /\ ac_nin' = 0
    /\ ac_pc' = "off"
    /\ ac_hil' = <<>>
    /\ UNCHANGED AcUnch

NextAcc == AcOpen \/ AcTop \/ AcRead \/ AcFull \/ AcProc \/ AcStop

SpecAcc == Init /\ [][NextAcc]_ac_vars

(* ------------------------------- component: recorder, write against close *)
(* WavRecorder::write called by a worker thread while the controller calls *)
(* close(), each taken one statement group at a time; std::mutex decides   *)
(* who runs.  open() is called with no call in progress.                   *)

WxUnch ==
    <<MainUnch, sp_vars, rc_vars, wav_vars, rs_vars, tf_vars, hb_vars, cv_vars,
      fl_vars, wr_vars, cs_vars, cp_vars, lv_vars, ac_vars, ae_vars>>

\* a lock that is granted whoever holds the mutex
MutexHeld_ignored(m) == FALSE

\* std::lock_guard<std::mutex> lock(mutex_) waits while the mutex is held
MutexHeld(m) == m # "free"

\* open(): close() has returned; fopen, the fields reset, the placeholder
\* header written
WxOpen ==
    /\ ~wx_file
    /\ wx_w.pc = "idle"
    /\ wx_c = "idle"
    /\ wx_file' = TRUE
    /\ wx_bytes' = 0
    /\ wx_disk' = [len |-> HeaderBytes, riff |-> 0, data |-> 0]
    /\ wx_app' = 0
    /\ wx_nw' = 0
    /\ UNCHANGED <<wx_mutex, wx_w, wx_c, WxUnch>>

\* write(samples, count): if (!samples || count <= 0) return; then the
\* lock_guard is constructed
WxLock ==
    /\ wx_w.pc = "idle"
    /\ wx_nw < MaxWxWrites
    /\ wx_disk.len > 0
    /\ \E count \in 1..MaxCount :
        /\ ~MutexHeld(wx_mutex)
        /\ wx_mutex' = "w"
        /\ wx_w' = [pc |-> "append", count |-> count, written |-> 0]
    /\ wx_nw' = wx_nw + 1
    /\ UNCHANGED <<wx_file, wx_bytes, wx_disk, wx_c, wx_app, WxUnch>>

\* if (!file_) return; written = fwrite(samples, 2, count, file_)
WxAppend ==
    /\ wx_w.pc = "append"
    /\ IF ClosedNoop(wx_file)
       THEN /\ wx_w' = [pc |-> "idle", count |-> 0, written |-> 0]
            /\ wx_mutex' = IF wx_mutex = "w" THEN "free" ELSE wx_mutex
            /\ UNCHANGED <<wx_disk, wx_app>>
       ELSE \E written \in 0..wx_w.count :
            /\ wx_disk' = [wx_disk EXCEPT !.len = @ + 2 * written]
            /\ wx_app' = wx_app + 2 * written
            /\ wx_w' = [wx_w EXCEPT !.pc = "count", !.written = written]
            /\ UNCHANGED wx_mutex
    /\ UNCHANGED <<wx_file, wx_bytes, wx_c, wx_nw, WxUnch>>

\* data_bytes_ += written * sizeof(int16_t); the lock_guard is destroyed
WxCount ==
    /\ wx_w.pc = "count"
    /\ wx_bytes' = wx_bytes + Counted(wx_w.count, wx_w.written) * 2
    /\ wx_w' = [pc |-> "idle", count |-> 0, written |-> 0]
    /\ wx_mutex' = IF wx_mutex = "w" THEN "free" ELSE wx_mutex
    /\ UNCHANGED <<wx_file, wx_disk, wx_c, wx_app, wx_nw, WxUnch>>

\* close(): the lock_guard is constructed
WcLock ==
    /\ wx_c = "idle"
    /\ wx_disk.len > 0
    /\ ~MutexHeld(wx_mutex)
    /\ wx_mutex' = "c"
    /\ wx_c' = "patch"
    /\ UNCHANGED <<wx_file, wx_bytes, wx_disk, wx_w, wx_app, wx_nw, WxUnch>>

\* if (!file_) return; both size fields are patched from data_bytes_
WcPatch ==
    /\ wx_c = "patch"
    /\ IF ClosedNoop(wx_file)
       THEN /\ wx_c' = "idle"
            /\ wx_mutex' = IF wx_mutex = "c" THEN "free" ELSE wx_mutex
            /\ UNCHANGED wx_disk
       ELSE /\ wx_disk' = Patched(wx_disk, wx_bytes)
            /\ wx_c' = "fclose"
            /\ UNCHANGED wx_mutex
    /\ UNCHANGED <<wx_file, wx_bytes, wx_w, wx_app, wx_nw, WxUnch>>

\* fclose(file_); file_ = nullptr; data_bytes_ = 0; the lock_guard is
\* destroyed
WcFclose ==
    /\ wx_c = "fclose"
    /\ wx_file' = FALSE
    /\ wx_bytes' = 0
    /\ wx_c' = "idle"
    /\ wx_mutex' = IF wx_mutex = "c" THEN "free" ELSE wx_mutex
    /\ UNCHANGED <<wx_disk, wx_w, wx_app, wx_nw, WxUnch>>

NextWavRace ==
    \/ WxOpen
    \/ WxLock
    \/ WxAppend
    \/ WxCount
    \/ WcLock
    \/ WcPatch
    \/ WcFclose

SpecWavRace == Init /\ [][NextWavRace]_wx_vars

(* --------------------------------- component: ALSA encoder, playback writes *)
(* The ALSA variant of the TX worker as far as its writes to the playback  *)
(* device go: modem frames inside the loop, the EOO frame after it, each   *)
(* through write_real_to_alsa, with stop() on the controller's side.       *)

AeUnch ==
    <<MainUnch, sp_vars, rc_vars, wav_vars, rs_vars, tf_vars, hb_vars, cv_vars,
      fl_vars, wr_vars, cs_vars, cp_vars, lv_vars, ac_vars, wx_vars>>

\* start() on a joined worker: running_ = true; the thread enters its loop
AeStart ==
    /\ ae_pc = "off"
    /\ ~ae_run
    /\ ae_run' = TRUE
    /\ ae_pc' = "loop"
    /\ ae_kind' = "none"
    /\ ae_rem' = 0
    /\ ae_sent' = [modem |-> 0, eoo |-> 0]
    /\ ae_failed' = FALSE
    /\ ae_frames' = 0
    /\ UNCHANGED AeUnch

\* stop(): running_ = false; snd_pcm_drop on both devices; join follows
AeStop ==
    /\ ae_run
    /\ ae_run' = FALSE
    /\ UNCHANGED <<ae_pc, ae_kind, ae_rem, ae_sent, ae_failed, ae_frames,
                   AeUnch>>

\* while (running_): a full modem frame is encoded and handed to
\* write_real_to_alsa; with running_ cleared the loop is left, the device
\* prepared, the EOO frame produced and handed to write_real_to_alsa
AeLoop ==
    /\ ae_pc = "loop"
    /\ IF ae_run
       THEN /\ ae_frames < MaxAeFrames
            /\ ae_frames' = ae_frames + 1
            /\ ae_kind' = "modem"
       ELSE /\ ae_kind' = "eoo"
            /\ UNCHANGED ae_frames
    /\ ae_rem' = FrameSamples
    /\ ae_failed' = FALSE
    /\ ae_pc' = "write"
    /\ UNCHANGED <<ae_run, ae_sent, AeUnch>>

\* one test of while (remaining > 0 && running) in write_real_to_alsa and
\* the snd_pcm_writei it guards: some frames are taken, or an error is
\* recovered and the write retried, or recovery fails and the loop is left
AeWrite ==
    /\ ae_pc = "write"
    /\ IF ae_rem > 0 /\ ae_run
       THEN \/ \E w \in 1..ae_rem :
                /\ ae_rem' = ae_rem - w
                /\ ae_sent' = [ae_sent EXCEPT ![ae_kind] = @ + w]
                /\ UNCHANGED <<ae_pc, ae_failed>>
            \/ UNCHANGED <<ae_rem, ae_sent, ae_pc, ae_failed>>
            \/ /\ ae_failed' = TRUE
               /\ ae_pc' = IF ae_kind = "modem" THEN "loop" ELSE "drain"
               /\ UNCHANGED <<ae_rem, ae_sent>>
       ELSE /\ ae_pc' = IF ae_kind = "modem" THEN "loop" ELSE "drain"
            /\ UNCHANGED <<ae_rem, ae_sent, ae_failed>>
    /\ UNCHANGED <<ae_run, ae_kind, ae_frames, AeUnch>>

\* snd_pcm_drain(pcm_out_); the thread returns
AeDrain ==
    /\ ae_pc = "drain"
    /\ ae_pc' = "off"
    /\ UNCHANGED <<ae_run, ae_kind, ae_rem, ae_sent, ae_failed, ae_frames,
                   AeUnch>>

NextAlsaTx == AeStart \/ AeStop \/ AeLoop \/ AeWrite \/ AeDrain

SpecAlsaTx == Init /\ [][NextAlsaTx]_ae_vars

(* ---------------------------------------------------------------- claims *)

\* a block was appended to the RX playback buffer in this step
RxWrote(k) == obuf'["rx"] = Append(obuf["rx"], k)

\* C1: while fargan_ready is false the RX worker writes no synthesised
\* sample: a step taken with fargan_ready false appends nothing to the
\* output but the one-shot pre-roll silence, and a frame consumed by
\* warm-up is never synthesised.
C1_WarmupGate ==
    [][~dec.fargan_ready =>
          /\ ~RxWrote("speech")
          /\ Len(obuf'["rx"]) > Len(obuf["rx"]) =>
                /\ RxWrote("silence")
                /\ ~dec.output_primed
                /\ dec'.output_primed]_vars

\* C1 witness: warm-up frames were consumed, FARGAN is not ready and
\* nothing was written
C1_Witness ==
    /\ wpc["rx"] = "frames"
    /\ ~dec.fargan_ready
    /\ dec.warmup_count = FARGAN_WARMUP_FRAMES - 1
    /\ obuf["rx"] = <<>>

\* C2: an RX iteration that sees was_synced and the codec not synced
\* re-initialises FARGAN, clears fargan_ready, warmup_count and
\* output_primed, and has handled none of its feature frames yet.
C2_SyncEdgeReset ==
    [][(wpc["rx"] = "proc" /\ wpc'["rx"] # "proc"
        /\ dec.was_synced /\ ~dec'.was_synced) =>
          /\ dec'.fargan_st = "init"
          /\ ~dec'.fargan_ready
          /\ dec'.warmup_count = 0
          /\ ~dec'.output_primed
          /\ dec'.fi = 0]_vars

\* C2 witness: sync was lost after this run had primed its output, and the
\* frames of the losing iteration are about to be handled
C2_Witness ==
    /\ wpc["rx"] = "frames"
    /\ dec.fi = 0
    /\ ~dec.was_synced
    /\ ~dec.fargan_ready
    /\ dec.warmup_count = 0
    /\ ~dec.output_primed
    /\ obuf["rx"] # <<>>

\* C3: when the TX worker returns it has written exactly one EOO frame,
\* that frame was its last write, and the output stream was open when it
\* was written and still is.
C3_EooFlush ==
    [][(wpc["tx"] # "off" /\ wpc'["tx"] = "off") =>
          /\ enc.n_eoo = 1
          /\ enc.last_wr = "eoo"
          /\ enc.eoo_open
          /\ sout["tx"]]_vars

\* C3 witness: stop() cleared running and the EOO frame follows a modem
\* frame in the playback buffer
C3_Witness ==
    /\ wpc["tx"] = "drain"
    /\ ~running["tx"]
    /\ enc.n_eoo = 1
    /\ obuf["tx"] = <<"modem", "eoo">>

\* C4: the drain after the EOO frame plays out every block written to the
\* output stream; none is discarded.
C4_DrainPlaysOut == lost["tx"] = {}

\* the controller is inside stop(), waiting to join the worker of p
Joining(p) == Busy("join") /\ Head(ctl_q).p = p

\* C5: stop() unblocks a worker that is blocked in a capture read: while
\* the controller waits in join, a pending read can return.
C5_StopUnblocksRead ==
    \A p \in P : (Joining(p) /\ wpc[p] = "read") => ReadCanReturn(p)

\* C6: each pipeline has at most one live worker, and a live one whenever
\* running is true.
C6_OneWorkerPerPipeline ==
    \A p \in P : LiveCount(p) <= 1 /\ (running[p] => LiveCount(p) >= 1)

\* C7: a pipeline whose worker has ended can be started again: start()
\* never assigns over a joinable thread handle, so it spawns exactly one
\* worker and the program goes on.
C7_Restartable == ~crashed /\ \A p \in P : ~extra[p]

\* C8: the RX worker and the TX worker are never alive together.
C8_OnePipelineAlive == ~(Live("rx") /\ Live("tx"))

\* the controller call of this step uses, modifies or destroys a codec
\* handle of p: rade_tx_set_eoo_bits, rade_close / delete, rade_open
CtlTouchesCodec(p) ==
    /\ ctl_q # <<>>
    /\ ctl_q' # ctl_q
    /\ Head(ctl_q).p = p
    /\ \/ Head(ctl_q).op = "set_callsign" /\ rade[p]
       \/ Head(ctl_q).op = "destroy" /\ (rade[p] \/ aux[p])
       \/ Head(ctl_q).op \in {"acquire", "acquire_file"} /\ rade'[p]

\* C9: the controller thread touches no codec handle of a pipeline whose
\* worker is live.
C9_CodecOnlyFromWorker ==
    [][\A p \in P : CtlTouchesCodec(p) => ~Live(p)]_vars

\* C10: once close() has returned, and until the next start(), the worker
\* stores to no telemetry atomic and running, synced and the levels keep
\* their reset values.
C10_QuietAfterClose ==
    \A p \in P : closed_ret[p] =>
        /\ ~stored[p]
        /\ tele[p] = ZeroTele
        /\ ~running[p]

\* C10 witness: close() has returned on a decoder whose worker, having
\* cleared running itself, has not yet left processing_loop
C10_Witness == closed_ret["rx"] /\ Live("rx")


\* this step is the return of a stop() call on pipeline p: the early return
\* of a pipeline that is not running, or the end of stop() after the join
StopReturns(p) ==
    /\ ctl_q # <<>>
    /\ Head(ctl_q).p = p
    /\ Head(ctl_q).op \in {"stop", "join"}
    /\ ctl_q' = Tail(ctl_q)

\* C11: when a call to stop() returns, running is false, the input and
\* output levels read 0 and, for RX, synced reads false.
C11_StopLeavesReset ==
    [][\A p \in P : StopReturns(p) =>
          /\ ~running'[p]
          /\ tele'[p].in_lvl = 0
          /\ tele'[p].out_lvl = 0
          /\ ~tele'[p].synced]_vars


\* C12: a get_spectrum read that has returned holds either the initial
\* buffer or the complete snapshot of one worker update, never a mixture.
C12_SpectrumReadAtomic ==
    sp_r.pc = "idle" =>
        \E g \in 0..MaxPublish : \A b \in 1..SpectrumBins : sp_r.out[b] = g

\* C12 witness: a read returned a published snapshot while the worker is
\* in the middle of writing a later one
C12_Witness ==
    /\ sp_r.pc = "idle"
    /\ \A b \in 1..SpectrumBins : sp_r.out[b] = 1
    /\ sp_w.pc = "copy"
    /\ sp_w.gen = 2
    /\ sp_w.i = 2


\* C13: the recorder is closed or deleted only when no pipeline holds a
\* pointer to it, and no worker write reaches a closed or freed recorder.
C13_RecorderOutlivesPointers ==
    /\ ~rc_bad
    /\ g_recorder # "open" =>
          \A p \in P : ~rc_ptr[p] /\ ~rc_w[p].rec

\* C13 witness: the recorder was closed after being detached from a
\* pipeline whose worker is still writing blocks
C13_Witness ==
    /\ g_recorder = "closed"
    /\ g_recording
    /\ rc_w["rx"].pc = "wr"
    /\ rc_run["rx"]


\* the controller completes the call o of handler h on pipeline p
RcCall(o, h, p) ==
    /\ rc_q # <<>>
    /\ Head(rc_q) = RcOp(o, p, h)
    /\ rc_q' = Tail(rc_q)

C15_WavSizes ==
    (~wav_file /\ wav_disk.len > 0) =>
        /\ wav_disk.len = 44 + 2 * wav_n
        /\ wav_disk.riff = 36 + 2 * wav_n
        /\ wav_disk.data = 2 * wav_n

\* C15 witness: a closed file with appended samples, one of whose writes
\* fell short
C15_Witness ==
    /\ wav_op = "close"
    /\ ~wav_file
    /\ wav_n = 3
    /\ wav_drop
    /\ wav_disk = [len |-> 50, riff |-> 42, data |-> 6]

\* C16: once the recorder is closed, further close() and write() calls
\* change neither the file nor the recorded sizes.
C16_ClosedCallsAreNoops ==
    [][(~wav_file /\ wav_op' \in {"close", "write"}) =>
          UNCHANGED <<wav_file, data_bytes, wav_disk, wav_n>>]_wav_vars

\* C16 witness: the last call was a write on a recorder that had been
\* closed with samples in its file
C16_Witness ==
    /\ wav_op = "write"
    /\ ~wav_file
    /\ wav_disk.data = 2 * MaxCount
    /\ wav_disk.len = HeaderBytes + 2 * MaxCount


\* the output of a single call on the whole input of the stream
RsWhole ==
    resample_linear_stream(rs_in, Len(rs_in) * 3 + 2, rs_rate[1], rs_rate[2],
                           0, 0).out

\* C17: as long as no call ran out of output room, the output of the calls
\* on consecutive blocks equals the output of one call on the whole input.
C17_ChunkInvariance ==
    (rs_rate # <<0, 0>> /\ ~rs_capped /\ ~rs_oob) => rs_out = RsWhole


\* C18: when no call ran out of output room, N input samples at rate r_in
\* have produced floor(N * r_out / r_in) output samples, give or take one,
\* however the input was cut into blocks.
C18_OutputCount ==
    (rs_rate # <<0, 0>> /\ ~rs_capped /\ ~rs_oob) =>
        LET want == (Len(rs_in) * rs_rate[2]) \div rs_rate[1]
        IN Len(rs_out) \in (want - 1)..(want + 1)

\* unequal rates, the input fed in more than one non-empty block, all of it
\* consumed with room to spare
C18_Witness ==
    /\ rs_rate = <<2, 3>>
    /\ Len(rs_in) = MaxIn
    /\ rs_cap = FullCap
    /\ ~rs_capped
    /\ Len(rs_out) > Len(rs_in)


\* the block handed to the call that has just been made
RsBlock == SubSeq(rs_in', Len(rs_in) + 1, Len(rs_in'))

\* the step is a call of the resampler: open() leaves no output capacity
RsCalled == rs_cap' # 0

\* C19: a call with rate_in == rate_out writes the first min(n_in, cap)
\* samples of its block unchanged, leaves frac as it was, and sets prev to
\* the last sample of the block when the block is not empty.
C19_EqualRatesCopy ==
    [][RsCalled /\ rs_rate[1] = rs_rate[2] =>
           LET n == Min(Len(RsBlock), rs_cap') IN
           /\ Len(rs_out') = Len(rs_out) + n
           /\ \A i \in 1..n : rs_out'[Len(rs_out) + i] = RsBlock[i] * One
           /\ SubSeq(rs_out', 1, Len(rs_out)) = rs_out
           /\ rs_frac' = rs_frac
           /\ rs_prev' = IF Len(RsBlock) > 0 THEN RsBlock[Len(RsBlock)] ELSE rs_prev]_rs_vars

\* equal-rate calls have copied a block in full and cut another one short
C19_Witness ==
    /\ rs_rate = <<2, 2>>
    /\ rs_in = <<1, 0, 1, 1>>
    /\ rs_out = <<One, 0, One>>
    /\ rs_prev = 1
    /\ rs_cap = 1


\* C20: in the TX worker feat_count never leaves 0..frames_per_modem; rade_tx
\* is about to be called exactly when feat_count has reached
\* frames_per_modem, and once it was called and feat_count reset the count
\* is 0; so between frames the worker has made floor(k / frames_per_modem)
\* rade_tx calls for k processed frames.
C20_FeatCount ==
    /\ tf_feat \in 0..frames_per_modem
    /\ tf_pc = "tx" => tf_feat = frames_per_modem
    /\ tf_feat = frames_per_modem => tf_pc \in {"test", "tx", "reset"}
    /\ tf_pc \in {"loop", "chk", "off"} =>
         /\ tf_feat = tf_k % frames_per_modem
         /\ tf_modem = tf_k \div frames_per_modem
    /\ tf_pc = "reset" => tf_modem = tf_k \div frames_per_modem

\* a worker that has produced several modem frames and is part way into
\* the next one
C20_Witness ==
    /\ tf_pc = "loop"
    /\ tf_modem >= 3
    /\ tf_feat = frames_per_modem - 1


\* the step appends a block of kind k to the output of pipeline p
Appends(p, k) == obuf'[p] = Append(obuf[p], k)

\* C21: in every TX worker run the pre-roll silence is written before the
\* first capture read is taken and before any modem frame or EOO frame is
\* written: a read or such a write happens only in a run that has written
\* its pre-roll, and the pre-roll is one write of silence.
C21_TxPreroll ==
    [][/\ enc'.acc > enc.acc => enc.prefilled
       /\ (Appends("tx", "modem") \/ Appends("tx", "eoo")) => enc.prefilled
       /\ (wpc["tx"] = "pre" /\ wpc'["tx"] # "pre" /\ ~crashed') =>
              Appends("tx", "silence") /\ enc'.prefilled]_vars

\* a run that wrote its pre-roll, read the microphone and wrote a modem frame
C21_Witness ==
    /\ wpc["tx"] = "top"
    /\ enc.prefilled
    /\ enc.last_wr = "modem"


\* C22: the RX worker writes its pre-roll silence only when warm-up
\* completes with output_primed false, so once per sync session, and every
\* synthesised block it writes is written by a run that has written its
\* pre-roll since the last loss of sync.
C22_RxPreroll ==
    [][/\ RxWrote("silence") =>
            /\ ~dec.output_primed /\ dec'.output_primed
            /\ ~dec.fargan_ready /\ dec'.fargan_ready
       /\ RxWrote("speech") => dec.output_primed]_vars

\* a run that completed warm-up, wrote its pre-roll and then a synthesised
\* block, both still in the playback buffer
C22_Witness ==
    /\ dec.output_primed
    /\ dec.fargan_ready
    /\ obuf["rx"] = <<"silence", "speech">>


\* the input sample of index t counted from open, zero before open
HbInAt(t) == IF t >= 1 THEN hb_in[t] ELSE 0

\* the sum over k of coeffs[k] times the input at t - k
RECURSIVE HbConv(_, _)
HbConv(t, k) ==
    IF k < 0 THEN 0 ELSE HbConv(t, k - 1) + hilbert_coeffs[k] * HbInAt(t - k)

\* C23: whatever the block sizes of the calls since open, the real output
\* of sample t is the input of sample t - HILBERT_DELAY (zero before the
\* first), the imaginary output is the FIR sum over the last HILBERT_NTAPS
\* inputs, and the two ring indices are equal and inside the rings.
C23_HilbertStream ==
    /\ Len(hb_out) = Len(hb_in)
    /\ \A t \in 1..Len(hb_in) :
        /\ hb_out[t][1] = HbInAt(t - HILBERT_DELAY)
        /\ hb_out[t][2] = HbConv(t, HILBERT_NTAPS - 1)
    /\ hb_pos \in 0..(HILBERT_NTAPS - 1)
    /\ hb_dpos = hb_pos

\* both rings have wrapped, after calls that did not all have the same size
C23_Witness ==
    /\ Len(hb_in) = MaxHilbertIn
    /\ hb_pos = MaxHilbertIn % HILBERT_NTAPS
    /\ hb_out[MaxHilbertIn][1] = 2
    /\ hb_out[MaxHilbertIn][2] # 0


\* C24: each of the three converters yields a value within
\* [-32767, 32767], and a value beyond the clip level on either side
\* becomes exactly the clip level of that side.
C24_Clipping ==
    /\ {cv_rx, cv_tx, cv_lp} \subseteq (-S16_CLIP)..S16_CLIP
    /\ cv_in > S16_CLIP * SubSteps => {cv_rx, cv_tx, cv_lp} = {S16_CLIP}
    /\ cv_in < -(S16_CLIP * SubSteps) => {cv_rx, cv_tx, cv_lp} = {-S16_CLIP}

\* a value just below the negative clip level was converted
C24_Witness ==
    /\ cv_in = -(S16_CLIP * SubSteps) - 1
    /\ cv_rx = -S16_CLIP
    /\ cv_tx = -S16_CLIP


OpenFailed(p) ==
    /\ ctl_q # <<>>
    /\ Head(ctl_q).op \in {"acquire", "acquire_file"}
    /\ Head(ctl_q).p = p
    /\ ctl_q' = <<>>

\* C26: a failed open or open_file leaves the pipeline closed: no stream
\* and no codec handle is held, running is false, and start() would return
\* without spawning a worker.
C26_FailedOpenLeavesClosed ==
    [][\A p \in P : OpenFailed(p) =>
          /\ ~sin'[p] /\ ~sout'[p] /\ ~rade'[p] /\ ~aux'[p]
          /\ ~running'[p]
          /\ ~(CanStart(p))'
          /\ wpc'[p] = wpc[p]]_vars


\* open_file failed after the WAV had been loaded: the buffer is there, no
\* stream and no codec are held, the handler has returned
C26_Witness ==
    /\ obj["rx"]
    /\ file_rem > 0
    /\ ~file_mode
    /\ ~sout["rx"]
    /\ ~rade["rx"]
    /\ ~running["rx"]
    /\ ctl_q = <<>>


\* the file holds a chunk of the kinds ks
HasChunk(ks) == \E i \in 1..Len(wr_chunks) : wr_chunks[i] \in ks

\* C27: open_file succeeds only on a file in which both a "fmt " and a
\* "data" chunk were found, in whatever order they come, fails on every
\* other file, and never decodes samples with format fields that were not
\* read from a "fmt " chunk.
C27_NeedsFmtAndData ==
    /\ wr_res = "opened" => wr_fmt /\ wr_data
    /\ wr_pc = "decode" => wr_fmt
    /\ (wr_pc = "done" /\ ~(HasChunk({"fmt", "fmt_odd"}) /\ HasChunk({"data"})))
           => wr_res = "failed"


\* C28: whenever the encoder is open, the EOO bits in its transmitter are
\* those encoded from the value of the most recent set_callsign call,
\* whether that call was made while open or while closed.
C28_CallsignInstalled ==
    cs_rade => cs_bits = EncodeBits(cs_last)

\* a callsign set while the encoder was closed is in the transmitter after
\* the open that followed
C28_Witness ==
    /\ cs_rade
    /\ cs_calls = 3
    /\ cs_last = "VK2B"
    /\ cs_bits = EncodeBits("VK2B")


\* C29: when a capture read reports the non-fatal overflow result the buffer
\* holds the frames of that read, so every buffer the worker processes was
\* written by the read just made: none is processed unwritten or twice.
C29_OverflowBufferFresh ==
    /\ (cp_pc \in {"chk", "proc"} /\ cp_err = "overflow") => cp_buf = cp_reads
    /\ \A i \in 1..Len(cp_used) :
        /\ cp_used[i] # 0
        /\ \A j \in 1..(i - 1) : cp_used[j] < cp_used[i]


\* C30: whenever the encoder is running, tx_scale is pct/100 * 32767 for the
\* TX-level slider's position and the mic gain is pct/100 * 2.0 for the
\* mic-level slider's position, positions restored from the config file
\* before the encoder existed included.
C30_LevelsFollowSliders ==
    lv_enc = "running" =>
        /\ lv_scale = TxScaleOf(lv_tx)
        /\ lv_gain = MicGainOf(lv_mic)


\* C31: at every sync rising edge seen by the RX worker (previous iteration
\* not synced, this one synced) the warm-up state is fresh: fargan_ready is
\* false and warmup_count is 0, whatever the codec returned before.
C31_FreshAtRisingEdge ==
    [][(~dec.was_synced /\ dec'.was_synced) =>
          (~dec'.fargan_ready /\ dec'.warmup_count = 0)]_vars


\* C32: warmup_count stays within [0, 5]; fargan_ready holds only with
\* warmup_count at 5 and FARGAN primed by a continuation call since its last
\* re-initialisation; while fargan_ready is false warmup_count is below 5,
\* so each write into the 5-frame warm-up buffer is in bounds.  close()
\* deletes the FARGAN state and leaves the flag as it was; that is no
\* re-initialisation, which only fargan_init performs.
C32_WarmupBounds ==
    /\ dec.warmup_count \in 0..FARGAN_WARMUP_FRAMES
    /\ dec.fargan_ready =>
        /\ dec.warmup_count = FARGAN_WARMUP_FRAMES
        /\ dec.fargan_st # "init"
    /\ ~dec.fargan_ready => dec.warmup_count < FARGAN_WARMUP_FRAMES

\* the warm-up has completed and the worker is back at the top of its loop
C32_Witness ==
    /\ dec.fargan_ready
    /\ dec.warmup_count = FARGAN_WARMUP_FRAMES
    /\ dec.fargan_st = "cont"
    /\ wpc["rx"] = "top"
    /\ dec.was_synced


\* a capture read of worker p that returned an error: the worker leaves
\* "read" without having taken a period
ReadFailed(p) ==
    /\ wpc[p] = "read"
    /\ wpc'[p] \in {"acc", "chk"}
    /\ cap_avail' = cap_avail
    /\ dec' = dec
    /\ enc' = enc

\* C33: on a capture read error the TX worker sets running to false and so
\* terminates, while the RX worker leaves running as it is and retries.
C33_ReadErrorPolicy ==
    [][/\ ReadFailed("tx") => ~running'["tx"]
       /\ ReadFailed("rx") => running'["rx"] = running["rx"]]_vars


\* the integer nearest to v / SubSteps, a tie going away from zero
NearestTiesAway(v) ==
    IF v >= 0 THEN (2 * v + SubSteps) \div (2 * SubSteps)
    ELSE -((2 * (-v) + SubSteps) \div (2 * SubSteps))

\* the integer part of v / SubSteps, the fraction dropped toward zero
TowardZero(v) ==
    CHOOSE n \in (-S16_CLIP - 1)..(S16_CLIP + 1) :
        IF v >= 0 THEN n * SubSteps <= v /\ v < (n + 1) * SubSteps
        ELSE (n - 1) * SubSteps < v /\ v <= n * SubSteps

\* C34: for every in-range value, positive or negative, the RX output
\* converter gives the nearest integer with ties rounded away from zero, and
\* the TX converter gives the value truncated toward zero.
C34_RoundingModes ==
    (cv_in >= -(S16_CLIP * SubSteps) /\ cv_in <= S16_CLIP * SubSteps) =>
        /\ cv_rx = NearestTiesAway(cv_in)
        /\ cv_tx = TowardZero(cv_in)


C36_HilbertInputsInOrder ==
    /\ [](ac_hil \o ac_acc = [i \in 1..ac_next |-> i])
    /\ [][(ac_pc = "proc" /\ ac_pc' = "top") =>
             /\ ac_hil' = ac_hil \o SubSeq(ac_acc, 1, ac_nin)
             /\ ac_acc = SubSeq(ac_acc, 1, ac_nin) \o ac_acc']_ac_vars

\* several iterations have run and a residue waits in the accumulator
C36_Witness ==
    /\ ac_pc = "top"
    /\ Len(ac_hil) >= 4
    /\ Len(ac_acc) > 0


\* C37: in resample_linear_stream, over every sequence of calls with any
\* rates, block lengths and output capacities, each index used to read the
\* input block lies within [0, n_in - 1]: no call reads in[idx] or
\* in[idx - 1] with idx below 0.
C37_IndicesInBlock ==
    ~rs_oob


\* C38: under every interleaving of write() calls of a worker with a close()
\* of the controller, a write appends only while close() has not begun to
\* patch the header, every appended byte is counted before the mutex is
\* released, and the sizes close() patched are exactly the bytes appended
\* since the last open().
C38_WriteCloseAtomic ==
    /\ []((wx_file /\ wx_mutex = "free") => wx_bytes = wx_app)
    /\ []((~wx_file /\ wx_c = "idle" /\ wx_disk.len > 0) =>
             /\ wx_disk.data = wx_app
             /\ wx_disk.riff = 36 + wx_app
             /\ wx_disk.len = HeaderBytes + wx_app)
    /\ [][wx_app' > wx_app => wx_c \in {"idle", "patch"} /\ wx_mutex = "w"]_wx_vars
    /\ [][(wx_w.pc = "append" /\ ~wx_file) =>
             (wx_disk' = wx_disk /\ wx_bytes' = wx_bytes)]_wx_vars

\* a file closed with samples in it while the worker was waiting for the
\* mutex with one more write, which then did nothing
C38_Witness ==
    /\ ~wx_file
    /\ wx_c = "idle"
    /\ wx_w.pc = "idle"
    /\ wx_disk.data = 4
    /\ wx_nw = 3


\* C39: in the ALSA encoder the EOO frame produced after the loop is written
\* to the playback device when transmission is stopped: unless the device
\* fails beyond recovery, write_real_to_alsa has written all n_resamp
\* samples of the EOO frame when it returns, running cleared or not.
C39_EooWritten ==
    (ae_pc = "drain" /\ ~ae_failed) => ae_sent.eoo = FrameSamples


====
